---- MODULE Spec2Model ----
(***************************************************************************)
(* CREATE TABLE in pkg/sql/create_table.go: the statement driver           *)
(* (createTableNode.startExec), the descriptor assembler (NewTableDesc),   *)
(* foreign-key resolution (ResolveFK, addIndexForFK), interleaving         *)
(* (addInterleave, finalizeInterleave) and hash-shard synthesis            *)
(* (makeShardColumnDesc, makeHashShardComputeExpr,                         *)
(* makeShardCheckConstraintDef).                                           *)
(*                                                                         *)
(* One CREATE TABLE statement runs inside one transaction.  The            *)
(* transaction's view of the descriptor store is `store`; every            *)
(* descriptor write is appended to `writes`.  The descriptor under         *)
(* construction is `desc`, the map of sibling descriptors that must be     *)
(* saved with it is `affected`.                                            *)
(*                                                                         *)
(* Seven specifications: Spec runs one statement through startExec;        *)
(* SpecShard applies the hash-shard helpers, SpecInterleave addInterleave, *)
(* SpecFK a sequence of ResolveFK calls and SpecFinalize                   *)
(* finalizeInterleave to arguments drawn from bounded sets; SpecChain      *)
(* builds chains of interleaved tables with addInterleave; SpecCTAS runs   *)
(* startExec for CREATE TABLE AS, with its synchronous fill.  Column       *)
(* families, privileges, telemetry, LIKE definitions and the planning of   *)
(* CREATE TABLE AS are left out.                                           *)
(***************************************************************************)
EXTENDS Integers, Sequences, FiniteSets, TLC

VARIABLES
    pc,                 \* position of the statement in startExec / NewTableDesc
    settings,           \* cluster settings and session data read by the statement
    n,                  \* the tree.CreateTable node (n.Defs grows in the column pass)
    desc,               \* the tabledesc.Mutable under construction
    affected,           \* map descpb.ID -> *tabledesc.Mutable of sibling descriptors
    columnDefaultExprs, \* deferred default expressions, parallel to n.Defs
    store,              \* descriptors visible to the transaction, by ID
    uncommitted,        \* the transaction's uncommitted descriptors: ID -> IsNew
    writes,             \* the descriptor writes of this transaction, in order
    calls,              \* the builder calls made by NewTableDesc, in order
    err,                \* the error returned, NoError while running
    nextID,             \* the next descriptor ID GenerateUniqueDescID hands out
    fn                  \* input and result of the pure helpers (SpecShard, SpecInterleave)

vars == <<pc, settings, n, desc, affected, columnDefaultExprs, store,
          uncommitted, writes, calls, err, nextID, fn>>

-----------------------------------------------------------------------------
(* Bounds of the model.                                                    *)

\* Most FOREIGN KEY constraints in one CREATE TABLE statement.
MaxFKs == 2
\* Largest BUCKET_COUNT of a hash-sharded index.
MaxBuckets == 4
\* Most columns in the column list of a hash-sharded index.
MaxShardCols == 3
\* Most names in an INTERLEAVE IN PARENT field list.
MaxFields == 2

-----------------------------------------------------------------------------
(* Small helpers on sequences.                                             *)

Range(s) == {s[i] : i \in 1..Len(s)}

SeqsUpTo(S, k) == UNION {[1..m -> S] : m \in 0..k}

NoDesc == [ID |-> 0]
NoError == "ok"

-----------------------------------------------------------------------------
(* Descriptors (descpb.TableDescriptor and its parts).                     *)

\* descpb.ColumnDescriptor.  DefaultExpr and ComputeExpr are "" when nil.
ColumnDescriptor(name, type, nullable, defaultExpr, computeExpr, hidden) ==
    [ID |-> 0, Name |-> name, Type |-> type, Nullable |-> nullable,
     DefaultExpr |-> defaultExpr, ComputeExpr |-> computeExpr, Hidden |-> hidden,
     UsesSequenceIds |-> {}]

NotSharded == [IsSharded |-> FALSE, Name |-> "", ShardBuckets |-> 0, ColumnNames |-> <<>>]

\* descpb.IndexDescriptor.
IndexDescriptor(name, unique, columnNames, columnDirections) ==
    [ID |-> 0, Name |-> name, Unique |-> unique,
     ColumnNames |-> columnNames, ColumnDirections |-> columnDirections,
     ColumnIDs |-> <<>>, Interleave |-> <<>>, InterleavedBy |-> <<>>,
     Sharded |-> NotSharded, Partitioned |-> FALSE]

EmptyIndex == IndexDescriptor("", FALSE, <<>>, <<>>)

\* tabledesc.InitTableDescriptor: State is the zero value, PUBLIC.
InitTableDescriptor(id, parentID, name, temporary) ==
    [ID |-> id, Name |-> name, ParentID |-> parentID, Temporary |-> temporary,
     State |-> "PUBLIC", Columns |-> <<>>, NextColumnID |-> 0,
     PrimaryIndex |-> EmptyIndex, Indexes |-> <<>>, NextIndexID |-> 0,
     Checks |-> <<>>, OutboundFKs |-> <<>>, InboundFKs |-> <<>>,
     Mutations |-> <<>>, DependedOnBy |-> <<>>, IsSequence |-> FALSE,
     LocalityConfig |-> "", CreateQuery |-> ""]

\* Index of the column called `name` in the descriptor's Columns, 0 if none.
ColumnIndexByName(tbl, name) ==
    IF \E i \in 1..Len(tbl.Columns) : tbl.Columns[i].Name = name
    THEN CHOOSE i \in 1..Len(tbl.Columns) :
             /\ tbl.Columns[i].Name = name
             /\ \A j \in 1..(i - 1) : tbl.Columns[j].Name # name
    ELSE 0

HasColumn(tbl, name) == ColumnIndexByName(tbl, name) # 0

FindColumnByName(tbl, name) == tbl.Columns[ColumnIndexByName(tbl, name)]

HasColumnID(tbl, id) == \E i \in 1..Len(tbl.Columns) : tbl.Columns[i].ID = id

FindColumnByID(tbl, id) ==
    tbl.Columns[CHOOSE i \in 1..Len(tbl.Columns) :
                    /\ tbl.Columns[i].ID = id
                    /\ \A j \in 1..(i - 1) : tbl.Columns[j].ID # id]

\* desc.AllNonDropIndexes: the primary index first, then the secondary ones.
AllNonDropIndexes(tbl) ==
    (IF tbl.PrimaryIndex.ColumnNames = <<>> THEN <<>> ELSE <<tbl.PrimaryIndex>>)
        \o tbl.Indexes

-----------------------------------------------------------------------------
(* tabledesc.Mutable.AllocateIDs and the descriptor mutators it is used    *)
(* with (pkg/sql/catalog/tabledesc).                                       *)

JoinNames(names) ==
    LET RECURSIVE J(_)
        J(s) == IF s = <<>> THEN ""
                ELSE IF Len(s) = 1 THEN Head(s)
                ELSE Head(s) \o "_" \o J(Tail(s))
    IN J(names)

\* desc.AddColumn
AddColumn(tbl, col) == [tbl EXCEPT !.Columns = Append(@, col)]

\* desc.AddIndex: the first primary index becomes PrimaryIndex (named
\* "primary" unless named), a second one is an error; any other index is
\* appended to Indexes.
AddIndexFails(tbl, idx, primary) == primary /\ tbl.PrimaryIndex.Name # ""

AddIndex(tbl, idx, primary) ==
    IF primary
    THEN [tbl EXCEPT !.PrimaryIndex =
              [idx EXCEPT !.Name = IF idx.Name = "" THEN "primary" ELSE idx.Name]]
    ELSE [tbl EXCEPT !.Indexes = Append(@, idx)]

\* desc.AddIndexMutation / desc.AddForeignKeyMutation
AddIndexMutation(tbl, idx) ==
    [tbl EXCEPT !.Mutations =
         Append(@, [Kind |-> "index", Index |-> idx, Direction |-> "ADD"])]

AddForeignKeyMutation(tbl, ref) ==
    [tbl EXCEPT !.Mutations =
         Append(@, [Kind |-> "fk", Constraint |-> ref, Direction |-> "ADD"])]

\* ensurePrimaryKey: a table without a primary key gets the hidden rowid column.
ensurePrimaryKey(tbl) ==
    IF tbl.PrimaryIndex.ColumnNames # <<>> THEN tbl
    ELSE LET col == ColumnDescriptor("rowid", "INT", FALSE, "unique_rowid()", "", TRUE)
             idx == IndexDescriptor("primary", TRUE, <<"rowid">>, <<"ASC">>)
         IN  [AddColumn(tbl, col) EXCEPT !.PrimaryIndex = idx]

\* The columns with every zero ID replaced by the next free one.
RECURSIVE AssignColumnIDs(_, _)
AssignColumnIDs(cols, next) ==
    IF cols = <<>> THEN [Columns |-> <<>>, Next |-> next]
    ELSE LET c == Head(cols)
             id == IF c.ID = 0 THEN next ELSE c.ID
             r == AssignColumnIDs(Tail(cols), IF c.ID = 0 THEN next + 1 ELSE next)
         IN  [Columns |-> <<[c EXCEPT !.ID = id]>> \o r.Columns, Next |-> r.Next]

\* allocateIndexIDs for one index: an ID if it has none, a name if it has
\* none, and its ColumnIDs from its ColumnNames.
AllocateIndex(tbl, idx, id) ==
    [idx EXCEPT
        !.ID = IF @ = 0 THEN id ELSE @,
        !.Name = IF @ = "" THEN tbl.Name \o "_" \o JoinNames(idx.ColumnNames)
                                \o (IF idx.Unique THEN "_key" ELSE "_idx")
                 ELSE @,
        !.ColumnIDs = [i \in 1..Len(idx.ColumnNames) |->
                          IF HasColumn(tbl, idx.ColumnNames[i])
                          THEN FindColumnByName(tbl, idx.ColumnNames[i]).ID
                          ELSE 0]]

RECURSIVE AssignIndexIDs(_, _, _)
AssignIndexIDs(tbl, idxs, next) ==
    IF idxs = <<>> THEN [Indexes |-> <<>>, Next |-> next]
    ELSE LET i == Head(idxs)
             r == AssignIndexIDs(tbl, Tail(idxs), IF i.ID = 0 THEN next + 1 ELSE next)
         IN  [Indexes |-> <<AllocateIndex(tbl, i, next)>> \o r.Indexes, Next |-> r.Next]

RECURSIVE AssignMutationIDs(_, _, _)
AssignMutationIDs(tbl, muts, next) ==
    IF muts = <<>> THEN [Mutations |-> <<>>, Next |-> next]
    ELSE LET m == Head(muts)
             isNew == m.Kind = "index" /\ m.Index.ID = 0
             r == AssignMutationIDs(tbl, Tail(muts), IF isNew THEN next + 1 ELSE next)
             m2 == IF m.Kind = "index"
                   THEN [m EXCEPT !.Index = AllocateIndex(tbl, @, next)]
                   ELSE m
         IN  [Mutations |-> <<m2>> \o r.Mutations, Next |-> r.Next]

\* desc.AllocateIDs: additive, it never changes an ID that is already set.
AllocateIDs(tbl) ==
    LET t1 == ensurePrimaryKey(tbl)
        cs == AssignColumnIDs(t1.Columns, IF t1.NextColumnID = 0 THEN 1 ELSE t1.NextColumnID)
        t2 == [t1 EXCEPT !.Columns = cs.Columns, !.NextColumnID = cs.Next]
        first == IF t2.NextIndexID = 0 THEN 1 ELSE t2.NextIndexID
        pk == AssignIndexIDs(t2, <<t2.PrimaryIndex>>, first)
        sec == AssignIndexIDs(t2, t2.Indexes, pk.Next)
        mu == AssignMutationIDs(t2, t2.Mutations, sec.Next)
    IN  [t2 EXCEPT !.PrimaryIndex = pk.Indexes[1], !.Indexes = sec.Indexes,
                   !.Mutations = mu.Mutations, !.NextIndexID = mu.Next]

\* AllocateIDs ends with desc.ValidateTable, which rejects an index on a
\* column the table does not have.
AllocateIDsFails(tbl) ==
    LET t == ensurePrimaryKey(tbl)
        idxs == Range(AllNonDropIndexes(t)) \cup
                {m.Index : m \in {x \in Range(t.Mutations) : x.Kind = "index"}}
    IN  \E i \in idxs : \E c \in Range(i.ColumnNames) : ~HasColumn(t, c)

\* tabledesc.GenerateUniqueConstraintName: prefix, then prefix_1, prefix_2, ...
RECURSIVE UniqueNameFrom(_, _, _)
UniqueNameFrom(prefix, taken, i) ==
    LET name == prefix \o "_" \o ToString(i)
    IN  IF name \in taken THEN UniqueNameFrom(prefix, taken, i + 1) ELSE name

GenerateUniqueConstraintName(prefix, taken) ==
    IF prefix \in taken THEN UniqueNameFrom(prefix, taken, 1) ELSE prefix

\* The keys of desc.GetConstraintInfo: the names of the primary key, the
\* unique indexes, the foreign keys (also those being added) and the checks.
ConstraintNames(tbl) ==
    {i.Name : i \in {x \in Range(AllNonDropIndexes(tbl)) : x.Unique}}
        \cup {f.Name : f \in Range(tbl.OutboundFKs)}
        \cup {m.Constraint.Name : m \in {x \in Range(tbl.Mutations) : x.Kind = "fk"}}
        \cup {c.Name : c \in Range(tbl.Checks)}

\* desc.ValidateIndexNameIsUnique fails for these names.
IndexNames(tbl) ==
    {i.Name : i \in Range(AllNonDropIndexes(tbl))}
        \cup {m.Index.Name : m \in {x \in Range(tbl.Mutations) : x.Kind = "index"}}

-----------------------------------------------------------------------------
(* Name resolution (resolver.SchemaResolver, fkSelfResolver).              *)

\* The descriptors of the transaction's view that carry the name.
StoreIDsByName(st, name) == {id \in DOMAIN st : st[id].Name = name}

\* fkSelfResolver: the name of the table being created resolves to the
\* descriptor being built; every other name is looked up uncached.
\* sc.newTableName is "" for a plain SchemaResolver.
Resolvable(sc, tbl, name) ==
    (sc.newTableName # "" /\ name = sc.newTableName) \/ StoreIDsByName(sc.store, name) # {}

ResolveTable(sc, tbl, name) ==
    IF sc.newTableName # "" /\ name = sc.newTableName THEN tbl
    ELSE sc.store[CHOOSE id \in StoreIDsByName(sc.store, name) : TRUE]

-----------------------------------------------------------------------------
(* ResolveFK and addIndexForFK.                                            *)

\* The first error of the origin-column loop, NoError if there is none.
RECURSIVE OriginColumnsError(_, _, _)
OriginColumnsError(tbl, fromCols, seen) ==
    IF fromCols = <<>> THEN NoError
    ELSE IF ~HasColumn(tbl, Head(fromCols)) THEN "UndefinedColumn"
    ELSE LET col == FindColumnByName(tbl, Head(fromCols))
         IN  IF col.ComputeExpr # "" THEN "InvalidTableDefinition"
             ELSE IF col.ID \in seen THEN "InvalidForeignKey"
             ELSE OriginColumnsError(tbl, Tail(fromCols), seen \cup {col.ID})

\* Variant: the self-reference goes unnoticed.
IsSelfReference_Never(tbl, target) == FALSE

\* target.ID == tbl.ID: the foreign key references the table it is declared on.
IsSelfReference(tbl, target) == target.ID = tbl.ID

\* Variant: SET NULL is accepted over any origin column.
SetNullOnNonNullable_Ignored(d, originCols) == FALSE

\* ON DELETE / ON UPDATE SET NULL over an origin column that is NOT NULL.
SetNullOnNonNullable(d, originCols) ==
    /\ (d.Delete = "SET NULL" \/ d.Update = "SET NULL")
    /\ \E i \in 1..Len(originCols) : ~originCols[i].Nullable

\* Variant: a constraint name given in the definition is taken as it is.
DuplicateConstraintName_Never(d, constraintInfo) == FALSE

\* The definition names the constraint and the table has a constraint of
\* that name.
DuplicateConstraintName(d, constraintInfo) == d.Name # "" /\ d.Name \in constraintInfo

\* Variant: SET DEFAULT is accepted over any origin column.
SetDefaultOnNonNullable_Ignored(d, originCols) == FALSE

\* ON DELETE / ON UPDATE SET DEFAULT over an origin column that is NOT NULL
\* and has no default expression.
SetDefaultOnNonNullable(d, originCols) ==
    /\ (d.Delete = "SET DEFAULT" \/ d.Update = "SET DEFAULT")
    /\ \E i \in 1..Len(originCols) :
           originCols[i].DefaultExpr = "" /\ ~originCols[i].Nullable

\* Variant: a table resolved again replaces the instance in backrefs.
DedupeTarget_Overwrite(backrefs, target) ==
    (target.ID :> target) @@ backrefs

\* A new table referencing another table is created in the ADD state.
MarkAdding(tbl, ts) ==
    IF ts = "NewTable" THEN [tbl EXCEPT !.State = "ADD"] ELSE tbl

\* One mutable instance per referenced table: a table resolved before is
\* replaced by the instance already in backrefs.
DedupeTarget(backrefs, target) ==
    IF target.ID \in DOMAIN backrefs THEN backrefs
    ELSE (target.ID :> target) @@ backrefs

\* tabledesc.FindFKOriginIndexInTxn: an index (also one being added) whose
\* columns start with the origin columns.
IsValidOriginIndex(idx, ids) ==
    /\ Len(idx.ColumnIDs) >= Len(ids)
    /\ SubSeq(idx.ColumnIDs, 1, Len(ids)) = ids

HasFKOriginIndexInTxn(tbl, ids) ==
    \/ \E i \in Range(AllNonDropIndexes(tbl)) : IsValidOriginIndex(i, ids)
    \/ \E m \in Range(tbl.Mutations) :
           m.Kind = "index" /\ m.Direction = "ADD" /\ IsValidOriginIndex(m.Index, ids)

\* tabledesc.FindFKReferencedIndex: a unique index on exactly the referenced columns.
HasFKReferencedIndex(tbl, ids) ==
    \E i \in Range(AllNonDropIndexes(tbl)) : i.Unique /\ i.ColumnIDs = ids

\* Variant: the index is queued as a mutation for a new table too.
addIndexForFK_Mutation(tbl, srcCols, constraintName, ts) ==
    AllocateIDs(AddIndexMutation(tbl,
        IndexDescriptor(tbl.Name \o "_auto_index_" \o constraintName, FALSE,
                        [i \in 1..Len(srcCols) |-> srcCols[i].Name],
                        [i \in 1..Len(srcCols) |-> "ASC"])))

\* The columns of the index are columns of the table, so AddIndex and
\* AllocateIDs do not fail here.
addIndexForFK(tbl, srcCols, constraintName, ts) ==
    LET autoIndexName == GenerateUniqueConstraintName(
                             tbl.Name \o "_auto_index_" \o constraintName, IndexNames(tbl))
        idx == IndexDescriptor(autoIndexName, FALSE,
                               [i \in 1..Len(srcCols) |-> srcCols[i].Name],
                               [i \in 1..Len(srcCols) |-> "ASC"])
    IN  IF ts = "NewTable"
        THEN AllocateIDs(AddIndex(tbl, idx, FALSE))
        ELSE AllocateIDs(AddIndexMutation(tbl, idx))

\* Variant: every new constraint waits for validation.
ConstraintValidity_Validating(ts, validationBehavior) == "Validating"

\* The validity a new constraint starts with.
ConstraintValidity(ts, validationBehavior) ==
    IF ts # "NewTable"
    THEN IF validationBehavior = "ValidationSkip" THEN "Unvalidated" ELSE "Validating"
    ELSE "Validated"

ForeignKeyConstraint(tbl, originColumnIDs, target, targetColIDs, constraintName, validity, d) ==
    [OriginTableID |-> tbl.ID, OriginColumnIDs |-> originColumnIDs,
     ReferencedColumnIDs |-> targetColIDs, ReferencedTableID |-> target.ID,
     Name |-> constraintName, Validity |-> validity,
     OnDelete |-> d.Delete, OnUpdate |-> d.Update, Match |-> d.Match]

\* Variant: the constraint goes straight into OutboundFKs for every table.
AddToOrigin_Outbound(tbl, ref, ts) == [tbl EXCEPT !.OutboundFKs = Append(@, ref)]

\* The origin side of the final step: OutboundFKs for a new table, a pending
\* mutation for an existing one.
AddToOrigin(tbl, ref, ts) ==
    IF ts = "NewTable" THEN [tbl EXCEPT !.OutboundFKs = Append(@, ref)]
    ELSE AddForeignKeyMutation(tbl, ref)

\* Variant: the referenced table gets no back-reference.
AddToTarget_Dropped(target, ref, ts) == target

\* The referenced side of the final step.
AddToTarget(target, ref, ts) ==
    IF ts = "NewTable" THEN [target EXCEPT !.InboundFKs = Append(@, ref)]
    ELSE target

\* What ResolveFK leaves behind: the error, the origin table and backrefs.
ResolveFKReturn(code, tbl, backrefs) == [err |-> code, tbl |-> tbl, backrefs |-> backrefs]

\* ResolveFK from the referenced index on: the constraint is built and
\* appended to both tables.  The target of a self-reference is tbl itself.
ResolveFKAppend(tbl, d, backrefs, ts, validationBehavior, targetID, self, originColumnIDs, targetColIDs, constraintName) ==
    LET target == IF self THEN tbl ELSE backrefs[targetID]
        ref == ForeignKeyConstraint(tbl, originColumnIDs, target, targetColIDs,
                   constraintName, ConstraintValidity(ts, validationBehavior), d)
    IN  IF ~HasFKReferencedIndex(target, targetColIDs)
        THEN ResolveFKReturn("ForeignKeyViolation", tbl, backrefs)
        ELSE IF self
        THEN ResolveFKReturn(NoError, AddToTarget(AddToOrigin(tbl, ref, ts), ref, ts),
                             backrefs)
        ELSE ResolveFKReturn(NoError, AddToOrigin(tbl, ref, ts),
                             [backrefs EXCEPT ![targetID] = AddToTarget(@, ref, ts)])

\* ResolveFK, the index on the origin columns: looked for only below cluster
\* version NoOriginFKIndexes, and added when the table has none.
ResolveFKOriginIndex(tbl, d, backrefs, ts, validationBehavior, st, targetID, self, originCols, targetColIDs, constraintName) ==
    LET originColumnIDs == [i \in 1..Len(originCols) |-> originCols[i].ID]
        needIndex == /\ ~st.NoOriginFKIndexes
                     /\ ~HasFKOriginIndexInTxn(tbl, originColumnIDs)
    IN  IF needIndex /\ ts = "NonEmptyTable"
        THEN ResolveFKReturn("ForeignKeyViolation", tbl, backrefs)
        ELSE ResolveFKAppend(
                 IF needIndex THEN addIndexForFK(tbl, originCols, constraintName, ts)
                 ELSE tbl,
                 d, backrefs, ts, validationBehavior, targetID, self,
                 originColumnIDs, targetColIDs, constraintName)

\* ResolveFK, the referenced columns, the constraint name and the actions.
ResolveFKColumns(tbl, d, backrefs, ts, validationBehavior, st, targetID, self, originCols) ==
    LET target == IF self THEN tbl ELSE backrefs[targetID]
        referencedColNames == IF d.ToCols = <<>> THEN target.PrimaryIndex.ColumnNames
                              ELSE d.ToCols
        referencedCols == [i \in 1..Len(referencedColNames) |->
                              FindColumnByName(target, referencedColNames[i])]
        constraintInfo == ConstraintNames(tbl)
    IN
    IF \E i \in 1..Len(referencedColNames) : ~HasColumn(target, referencedColNames[i])
    THEN ResolveFKReturn("UndefinedColumn", tbl, backrefs)
    ELSE IF Len(referencedCols) # Len(originCols)
         THEN ResolveFKReturn("Syntax", tbl, backrefs)
    ELSE IF \E i \in 1..Len(originCols) : originCols[i].Type # referencedCols[i].Type
         THEN ResolveFKReturn("DatatypeMismatch", tbl, backrefs)
    ELSE IF DuplicateConstraintName(d, constraintInfo)
         THEN ResolveFKReturn("DuplicateObject", tbl, backrefs)
    ELSE IF SetNullOnNonNullable(d, originCols)
         THEN ResolveFKReturn("InvalidForeignKey", tbl, backrefs)
    ELSE IF SetDefaultOnNonNullable(d, originCols)
         THEN ResolveFKReturn("InvalidForeignKey", tbl, backrefs)
    ELSE ResolveFKOriginIndex(tbl, d, backrefs, ts, validationBehavior, st, targetID, self,
             originCols,
             [i \in 1..Len(referencedCols) |-> referencedCols[i].ID],
             IF d.Name = ""
             THEN GenerateUniqueConstraintName(
                      "fk_" \o d.FromCols[1] \o "_ref_" \o target.Name, constraintInfo)
             ELSE d.Name)

\* ResolveFK, the resolved target: the database and temporary checks, then
\* the self-reference test; a table referencing another is marked ADD and
\* the target is taken from backrefs.
ResolveFKTarget(tbl, d, backrefs, ts, validationBehavior, st, originCols, target) ==
    IF target.ParentID # tbl.ParentID /\ ~st.allowCrossDatabaseFKs
    THEN ResolveFKReturn("InvalidForeignKey", tbl, backrefs)
    ELSE IF tbl.Temporary # target.Temporary
         THEN ResolveFKReturn("InvalidTableDefinition", tbl, backrefs)
    ELSE ResolveFKColumns(
             IF IsSelfReference(tbl, target) THEN tbl ELSE MarkAdding(tbl, ts),
             d,
             IF IsSelfReference(tbl, target) THEN backrefs
             ELSE DedupeTarget(backrefs, target),
             ts, validationBehavior, st, target.ID, IsSelfReference(tbl, target),
             originCols)

ResolveFK(sc, tbl, d, backrefs, ts, validationBehavior, st) ==
    LET originErr == OriginColumnsError(tbl, d.FromCols, {})
    IN  IF originErr # NoError THEN ResolveFKReturn(originErr, tbl, backrefs)
        ELSE IF ~Resolvable(sc, tbl, d.Table)
             THEN ResolveFKReturn("UndefinedTable", tbl, backrefs)
        ELSE ResolveFKTarget(tbl, d, backrefs, ts, validationBehavior, st,
                 [i \in 1..Len(d.FromCols) |-> FindColumnByName(tbl, d.FromCols[i])],
                 ResolveTable(sc, tbl, d.Table))

-----------------------------------------------------------------------------
(* addInterleave.                                                          *)

\* Variant: field names are compared with the parent's column names.
RECURSIVE InterleaveColumnsError_ParentNames(_, _, _, _, _)
InterleaveColumnsError_ParentNames(parentTable, tbl, index, fields, i) ==
    LET parentIndex == parentTable.PrimaryIndex
    IN  IF i > Len(parentIndex.ColumnIDs) THEN NoError
        ELSE LET targetCol == FindColumnByID(parentTable, parentIndex.ColumnIDs[i])
                 col == FindColumnByID(tbl, index.ColumnIDs[i])
             IN  IF fields[i] # targetCol.Name THEN "InvalidSchemaDefinition"
                 ELSE IF \/ col.Type # targetCol.Type
                         \/ index.ColumnDirections[i] # parentIndex.ColumnDirections[i]
                      THEN "InvalidSchemaDefinition"
                 ELSE InterleaveColumnsError_ParentNames(parentTable, tbl, index, fields, i + 1)

\* The error of the per-column loop over the parent's primary index, NoError
\* if every position passes.  Field names are compared with the child's
\* index column names; types and directions with the parent's.
RECURSIVE InterleaveColumnsError(_, _, _, _, _)
InterleaveColumnsError(parentTable, tbl, index, fields, i) ==
    LET parentIndex == parentTable.PrimaryIndex
    IN  IF i > Len(parentIndex.ColumnIDs) THEN NoError
        ELSE IF ~HasColumnID(parentTable, parentIndex.ColumnIDs[i]) THEN "UndefinedColumn"
        ELSE IF ~HasColumnID(tbl, index.ColumnIDs[i]) THEN "UndefinedColumn"
        ELSE LET targetCol == FindColumnByID(parentTable, parentIndex.ColumnIDs[i])
                 col == FindColumnByID(tbl, index.ColumnIDs[i])
             IN  IF fields[i] # col.Name THEN "InvalidSchemaDefinition"
                 ELSE IF \/ col.Type # targetCol.Type
                         \/ index.ColumnDirections[i] # parentIndex.ColumnDirections[i]
                      THEN "InvalidSchemaDefinition"
                 ELSE InterleaveColumnsError(parentTable, tbl, index, fields, i + 1)

\* Variant: the operands of the subtraction are exchanged.
Uint32Sub_Swapped(a, b) == b - a

\* SharedPrefixLen is a uint32 and its subtraction is modulo 2^32.  A uint32
\* v is kept here as its two's-complement representative (v below 2^31,
\* v - 2^32 from there on), which subtraction modulo 2^32 maps to plain
\* subtraction: a negative representative is a value that wrapped below zero.
Uint32Sub(a, b) == a - b

\* Variant: the new entry shares the parent's whole primary key.
NewAncestor_WholeKey(parentTable) ==
    [TableID |-> parentTable.ID, IndexID |-> parentTable.PrimaryIndex.ID,
     SharedPrefixLen |-> Len(parentTable.PrimaryIndex.ColumnIDs)]

\* The entry for the parent: the shared prefix is what the parent's key adds
\* to the prefixes of the parent's own ancestors.
NewAncestor(parentTable) ==
    LET parentIndex == parentTable.PrimaryIndex
        RECURSIVE SubAll(_, _)
        SubAll(len, ancestors) ==
            IF ancestors = <<>> THEN len
            ELSE SubAll(Uint32Sub(len, Head(ancestors).SharedPrefixLen), Tail(ancestors))
    IN  [TableID |-> parentTable.ID, IndexID |-> parentIndex.ID,
         SharedPrefixLen |-> SubAll(Len(parentIndex.ColumnIDs), parentIndex.Interleave)]

\* The result is the error, the index with its ancestor chain and the table
\* (in state ADD on success).
addInterleave(vt, tbl, index, interleave) ==
    LET Ret(code, t, i) == [err |-> code, tbl |-> t, index |-> i]
        parentTable == ResolveTable(vt, tbl, interleave.Parent)
        parentIndex == parentTable.PrimaryIndex
        loopErr == InterleaveColumnsError(parentTable, tbl, index, interleave.Fields, 1)
    IN
    IF interleave.DropBehavior # "DropDefault" THEN Ret("FeatureNotSupported", tbl, index)
    ELSE IF ~Resolvable(vt, tbl, interleave.Parent) THEN Ret("UndefinedTable", tbl, index)
    ELSE IF Len(interleave.Fields) # Len(parentIndex.ColumnIDs)
         THEN Ret("InvalidSchemaDefinition", tbl, index)
    ELSE IF Len(interleave.Fields) > Len(index.ColumnIDs)
         THEN Ret("InvalidSchemaDefinition", tbl, index)
    ELSE IF loopErr # NoError THEN Ret(loopErr, tbl, index)
    ELSE Ret(NoError, [tbl EXCEPT !.State = "ADD"],
             [index EXCEPT !.Interleave =
                  Append(parentIndex.Interleave, NewAncestor(parentTable))])

-----------------------------------------------------------------------------
(* Hash-sharded indexes: the shard column, its compute expression and its  *)
(* CHECK constraint.                                                       *)

\* The tree.Expr nodes the shard expressions are built from.
ColumnItem(name) == [node |-> "ColumnItem", ColumnName |-> name]
CastExpr(expr, type) == [node |-> "CastExpr", Expr |-> expr, Type |-> type]
DString(str) == [node |-> "DString", Value |-> str]
DInt(i) == [node |-> "DInt", Value |-> i]
NumVal(i) == [node |-> "NumVal", Value |-> i]
CoalesceExpr(exprs) == [node |-> "CoalesceExpr", Name |-> "COALESCE", Exprs |-> exprs]
FuncExpr(func, exprs) == [node |-> "FuncExpr", Func |-> func, Exprs |-> exprs]
BinaryExpr(left, operator, right) ==
    [node |-> "BinaryExpr", Left |-> left, Operator |-> operator, Right |-> right]
Tuple(exprs) == [node |-> "Tuple", Exprs |-> exprs]
ComparisonExpr(operator, left, right) ==
    [node |-> "ComparisonExpr", Operator |-> operator, Left |-> left, Right |-> right]
NilExpr == [node |-> "nil"]

\* tree.Serialize: operands that are themselves operators are parenthesized,
\* constants carry their type annotation.
RECURSIVE Serialize(_)
Serialize(e) ==
    LET RECURSIVE List(_)
        List(es) == IF es = <<>> THEN ""
                    ELSE IF Len(es) = 1 THEN Serialize(Head(es))
                    ELSE Serialize(Head(es)) \o ", " \o List(Tail(es))
        Operand(x) == IF x.node \in {"BinaryExpr", "ComparisonExpr"}
                      THEN "(" \o Serialize(x) \o ")" ELSE Serialize(x)
    IN  CASE e.node = "ColumnItem" -> e.ColumnName
          [] e.node = "CastExpr" -> Operand(e.Expr) \o "::" \o e.Type
          [] e.node = "DString" -> "'" \o e.Value \o "':::STRING"
          [] e.node = "DInt" -> ToString(e.Value) \o ":::INT8"
          [] e.node = "NumVal" -> ToString(e.Value)
          [] e.node = "CoalesceExpr" -> e.Name \o "(" \o List(e.Exprs) \o ")"
          [] e.node = "FuncExpr" -> e.Func \o "(" \o List(e.Exprs) \o ")"
          [] e.node = "Tuple" -> "(" \o List(e.Exprs) \o ")"
          [] e.node = "BinaryExpr" ->
                 Operand(e.Left) \o " " \o e.Operator \o " " \o Operand(e.Right)
          [] e.node = "ComparisonExpr" ->
                 Operand(e.Left) \o " " \o e.Operator \o " " \o Operand(e.Right)
          [] OTHER -> ""

\* tabledesc.GetShardColumnName
GetShardColumnName(colNames, buckets) ==
    "crdb_internal_" \o JoinNames(colNames) \o "_shard_" \o ToString(buckets)

\* fnv32(COALESCE(colName::STRING, ''))
hashedColumnExpr(colName) ==
    FuncExpr("fnv32",
             <<CoalesceExpr(<<CastExpr(ColumnItem(colName), "STRING"), DString("")>>)>>)

\* Variant: the loop runs from the first column to the last.
RECURSIVE SumOfHashes_Forward(_, _, _)
SumOfHashes_Forward(colNames, i, expr) ==
    IF i < 1 THEN expr
    ELSE SumOfHashes_Forward(colNames, i - 1,
             IF expr = NilExpr THEN hashedColumnExpr(colNames[Len(colNames) - i + 1])
             ELSE BinaryExpr(hashedColumnExpr(colNames[Len(colNames) - i + 1]), "+", expr))

\* The loop of makeHashShardComputeExpr, from the last column to the first:
\* `expr` is the sum built so far, `i` the column to add on its left.
RECURSIVE SumOfHashes(_, _, _)
SumOfHashes(colNames, i, expr) ==
    IF i < 1 THEN expr
    ELSE SumOfHashes(colNames, i - 1,
             IF expr = NilExpr THEN hashedColumnExpr(colNames[i])
             ELSE BinaryExpr(hashedColumnExpr(colNames[i]), "+", expr))

HashShardExpr(colNames, buckets) ==
    FuncExpr("mod", <<SumOfHashes(colNames, Len(colNames), NilExpr), DInt(buckets)>>)

makeHashShardComputeExpr(colNames, buckets) == Serialize(HashShardExpr(colNames, buckets))

makeShardColumnDesc(colNames, buckets) ==
    ColumnDescriptor(GetShardColumnName(colNames, buckets), "INT4", FALSE, "",
                     makeHashShardComputeExpr(colNames, buckets), TRUE)

\* Variant: the loop starts at one.
ShardCheckValues_FromOne(buckets) == [i \in 1..buckets |-> NumVal(i)]

\* The values of the loop `for i := 0; i < buckets; i++`.
ShardCheckValues(buckets) == [i \in 1..buckets |-> NumVal(i - 1)]

makeShardCheckConstraintDef(buckets, shardCol) ==
    [kind |-> "check", Name |-> "",
     Expr |-> ComparisonExpr("IN", ColumnItem(shardCol.Name), Tuple(ShardCheckValues(buckets))),
     Hidden |-> TRUE]

\* maybeCreateAndAddShardCol for a new table: an existing hidden column of
\* the shard column's name is reused, a visible one is an error, otherwise
\* the shard column is added.
maybeCreateAndAddShardCol(buckets, tbl, colNames) ==
    LET shardCol == makeShardColumnDesc(colNames, buckets)
    IN  IF HasColumn(tbl, shardCol.Name)
        THEN IF FindColumnByName(tbl, shardCol.Name).Hidden
             THEN [err |-> NoError, tbl |-> tbl, created |-> FALSE,
                   shardCol |-> FindColumnByName(tbl, shardCol.Name)]
             ELSE [err |-> "DuplicateColumn", tbl |-> tbl, created |-> FALSE,
                   shardCol |-> shardCol]
        ELSE [err |-> NoError, tbl |-> AddColumn(tbl, shardCol), created |-> TRUE,
              shardCol |-> shardCol]

-----------------------------------------------------------------------------
(* The tree.CreateTable node and its table definitions.                    *)

NotPrimaryKey == [IsPrimaryKey |-> FALSE, Sharded |-> FALSE, ShardBuckets |-> 0]
ColumnPrimaryKey == [IsPrimaryKey |-> TRUE, Sharded |-> FALSE, ShardBuckets |-> 0]
ShardedPrimaryKey(buckets) ==
    [IsPrimaryKey |-> TRUE, Sharded |-> TRUE, ShardBuckets |-> buckets]

\* tree.ColumnTableDef.  IsSerial marks a SERIAL column; DefaultExpr and
\* Computed are expressions, NilExpr when absent.
ColumnTableDef(name, type, nullability, defaultExpr, primaryKey, isSerial, computed) ==
    [kind |-> "col", Name |-> name, Type |-> type, Nullability |-> nullability,
     DefaultExpr |-> defaultExpr, PrimaryKey |-> primaryKey, Unique |-> FALSE,
     IsSerial |-> isSerial, Computed |-> computed]

\* tree.IndexTableDef and tree.UniqueConstraintTableDef
\* tree.IndexTableDef.  Sharded is the bucket count of USING HASH, 0 without
\* it; Interleave tells whether the definition has its own INTERLEAVE clause.
IndexTableDef(name, columns, partitionBy) ==
    [kind |-> "index", Name |-> name, Columns |-> columns, PartitionBy |-> partitionBy,
     Sharded |-> 0, Interleave |-> FALSE]

UniqueConstraintTableDef(name, columns, primaryKey) ==
    [kind |-> "unique", Name |-> name, Columns |-> columns, PartitionBy |-> FALSE,
     PrimaryKey |-> primaryKey, Sharded |-> 0, Interleave |-> FALSE]

\* tree.ForeignKeyConstraintTableDef
ForeignKeyConstraintTableDef(name, fromCols, table, toCols, delete, update) ==
    [kind |-> "fk", Name |-> name, FromCols |-> fromCols, Table |-> table,
     ToCols |-> toCols, Delete |-> delete, Update |-> update, Match |-> "SIMPLE"]

NoInterleave == [Parent |-> "", Fields |-> <<>>, DropBehavior |-> "DropDefault"]
InterleaveDef(parent, fields) ==
    [Parent |-> parent, Fields |-> fields, DropBehavior |-> "DropDefault"]

CreateTable(table, defs, interleave, partitionBy, locality) ==
    [Table |-> table, Defs |-> defs, Interleave |-> interleave,
     PartitionBy |-> partitionBy, Locality |-> locality, IfNotExists |-> FALSE,
     As |-> FALSE, Persistence |-> "permanent"]

DefsOfKind(defs, kind) == {i \in 1..Len(defs) : defs[i].kind = kind}

\* The index and unique-constraint definitions with USING HASH.
ShardedIndexDefsOf(defs) ==
    {i \in 1..Len(defs) : defs[i].kind \in {"index", "unique"} /\ defs[i].Sharded # 0}

-----------------------------------------------------------------------------
(* NewTableDesc.  The build is threaded through a record                   *)
(*   [n, desc, columnDefaultExprs, affected, calls, err]                   *)
(* and stops at the first error.                                           *)

Fail(b, code) == [b EXCEPT !.err = code]

Called(b, what) == [b EXCEPT !.calls = Append(@, what)]

\* tabledesc.MakeColumnDefDescs: the column and, for PRIMARY KEY or UNIQUE,
\* its index.  A primary-key column is not nullable.
MakeColumnDefDescs(d) ==
    LET col == ColumnDescriptor(d.Name, d.Type,
                   d.Nullability # "NotNull" /\ ~d.PrimaryKey.IsPrimaryKey,
                   Serialize(d.DefaultExpr), Serialize(d.Computed), FALSE)
        shardName == GetShardColumnName(<<d.Name>>, d.PrimaryKey.ShardBuckets)
        idx == IF ~d.PrimaryKey.Sharded
               THEN IndexDescriptor("", TRUE, <<d.Name>>, <<"ASC">>)
               ELSE [IndexDescriptor("", TRUE, <<shardName, d.Name>>, <<"ASC", "ASC">>)
                        EXCEPT !.Sharded = [IsSharded |-> TRUE, Name |-> shardName,
                                            ShardBuckets |-> d.PrimaryKey.ShardBuckets,
                                            ColumnNames |-> <<d.Name>>]]
    IN  [col |-> col, hasIdx |-> d.PrimaryKey.IsPrimaryKey \/ d.Unique, idx |-> idx]

\* The PRIMARY KEY USING HASH part of the column pass: the shard column is
\* added to the descriptor and its CHECK constraint to n.Defs.
ShardedColumnDef(b, d, env) ==
    LET buckets == d.PrimaryKey.ShardBuckets
        sc == maybeCreateAndAddShardCol(buckets, b.desc, <<d.Name>>)
        checkConstraint == makeShardCheckConstraintDef(buckets, sc.shardCol)
    IN  IF ~env.HashShardedIndexesEnabled THEN Fail(b, "FeatureNotSupported")
        ELSE IF b.n.PartitionBy THEN Fail(b, "FeatureNotSupported")
        ELSE IF b.n.Interleave # NoInterleave THEN Fail(b, "FeatureNotSupported")
        ELSE IF buckets < 2 THEN Fail(b, "InvalidParameterValue")
        ELSE IF sc.err # NoError THEN Fail(b, sc.err)
        ELSE [b EXCEPT !.desc = sc.tbl,
                       !.n.Defs = Append(@, checkConstraint),
                       !.columnDefaultExprs = Append(@, NilExpr)]

\* One iteration of the column pass, for n.Defs[i].
ColumnDef(b, i, env) ==
    LET d == b.n.Defs[i]
        b1 == IF d.PrimaryKey.Sharded THEN ShardedColumnDef(b, d, env) ELSE b
        made == MakeColumnDefDescs(d)
        withCol == AddColumn(b1.desc, made.col)
    IN  IF d.kind # "col" THEN b
        ELSE IF b1.err # NoError THEN b1
        ELSE IF made.hasIdx /\ AddIndexFails(withCol, made.idx, d.PrimaryKey.IsPrimaryKey)
             THEN Fail(b1, "InvalidTableDefinition")
        ELSE [b1 EXCEPT
                 !.desc = IF made.hasIdx
                          THEN AddIndex(withCol, made.idx, d.PrimaryKey.IsPrimaryKey)
                          ELSE withCol,
                 !.columnDefaultExprs[i] = d.DefaultExpr]

\* The column pass ranges over the definitions the statement had on entry:
\* the CHECK definitions it appends are not visited.
RECURSIVE ColumnPassFrom(_, _, _, _)
ColumnPassFrom(b, i, last, env) ==
    IF i > last \/ b.err # NoError THEN b
    ELSE ColumnPassFrom(ColumnDef(b, i, env), i + 1, last, env)

ColumnPass(b, env) == ColumnPassFrom(b, 1, Len(b.n.Defs), env)

\* idx.FillColumns
FillColumns(idx, columns) ==
    [idx EXCEPT !.ColumnNames = [i \in 1..Len(columns) |-> columns[i].Column],
                !.ColumnDirections = [i \in 1..Len(columns) |-> columns[i].Direction]]

\* CreatePartitioning is the CCL hook: it succeeds or fails as the hook decides.
\* `which` tells the call for a secondary index from the one for the primary.
PartitionedIndex(b, idx, env, which) ==
    LET b1 == Called(b, "CreatePartitioning:" \o which)
    IN  IF ~env.PartitioningOK THEN [b |-> Fail(b1, "CCLRequired"), idx |-> idx]
        ELSE [b |-> b1, idx |-> [idx EXCEPT !.Partitioned = TRUE]]

\* What setupShardedIndex returns with an error.
setupShardedIndexFailed(code, tbl, columns, idx) ==
    [err |-> code, tbl |-> tbl, columns |-> columns, idx |-> idx,
     newColumn |-> FALSE, shardCol |-> NoDesc]

\* The index over the shard column sc = maybeCreateAndAddShardCol(...)
\* followed by its own columns.
setupShardedIndexWith(sc, columns, buckets, tbl, idx) ==
    IF sc.err # NoError THEN setupShardedIndexFailed(sc.err, tbl, columns, idx)
    ELSE [err |-> NoError, tbl |-> sc.tbl,
          columns |-> <<[Column |-> sc.shardCol.Name, Direction |-> "ASC"]>> \o columns,
          idx |-> [idx EXCEPT !.Sharded =
                      [IsSharded |-> TRUE, Name |-> sc.shardCol.Name,
                       ShardBuckets |-> buckets,
                       ColumnNames |-> [k \in 1..Len(columns) |-> columns[k].Column]]],
          newColumn |-> sc.created, shardCol |-> sc.shardCol]

\* setupShardedIndex for a new table: the shard column of the index columns
\* is created or reused, put in front of the columns of the definition, and
\* the index is marked as sharded.
setupShardedIndex(enabled, columns, buckets, tbl, idx) ==
    IF ~enabled THEN setupShardedIndexFailed("FeatureNotSupported", tbl, columns, idx)
    ELSE IF buckets < 2
         THEN setupShardedIndexFailed("InvalidParameterValue", tbl, columns, idx)
    ELSE setupShardedIndexWith(
             maybeCreateAndAddShardCol(buckets, tbl,
                 [k \in 1..Len(columns) |-> columns[k].Column]),
             columns, buckets, tbl, idx)

\* setupShardedIndexForNewTable after sh = setupShardedIndex(...): the CHECK
\* of a new shard column is appended to n.Defs.
ShardedIndexForNewTable(b, i, idx, sh) ==
    IF sh.err # NoError THEN [b |-> Fail(b, sh.err), idx |-> idx]
    ELSE [b |-> [b EXCEPT
                    !.desc = sh.tbl,
                    !.n.Defs = IF sh.newColumn
                               THEN Append([@ EXCEPT ![i].Columns = sh.columns],
                                        makeShardCheckConstraintDef(b.n.Defs[i].Sharded,
                                                                    sh.shardCol))
                               ELSE [@ EXCEPT ![i].Columns = sh.columns],
                    !.columnDefaultExprs = IF sh.newColumn THEN Append(@, NilExpr)
                                           ELSE @],
          idx |-> sh.idx]

\* setupShardedIndexForNewTable for n.Defs[i]: a partitioned table has no
\* sharded index.
setupShardedIndexForNewTable(b, i, idx, env) ==
    IF b.n.PartitionBy THEN [b |-> Fail(b, "FeatureNotSupported"), idx |-> idx]
    ELSE ShardedIndexForNewTable(b, i, idx,
             setupShardedIndex(env.HashShardedIndexesEnabled, b.n.Defs[i].Columns,
                               b.n.Defs[i].Sharded, b.desc, idx))

\* The end of an iteration of the index pass: desc.AddIndex, and the
\* INTERLEAVE clause of the definition, which CREATE TABLE does not implement.
IndexDefAdd(part, d, primary) ==
    IF part.b.err # NoError THEN part.b
    ELSE IF AddIndexFails(part.b.desc, part.idx, primary)
         THEN Fail(part.b, "InvalidTableDefinition")
    ELSE IF d.Interleave
         THEN Fail([part.b EXCEPT !.desc = AddIndex(@, part.idx, primary)],
                   "FeatureNotSupported")
    ELSE [part.b EXCEPT !.desc = AddIndex(@, part.idx, primary)]

\* idx.FillColumns and the PARTITION BY of the definition, for
\* sh = [b, idx] as the sharding step left them.
IndexDefPartition(sh, i, primary, env) ==
    IF sh.b.err # NoError THEN sh.b
    ELSE IndexDefAdd(IF sh.b.n.Defs[i].PartitionBy
                     THEN PartitionedIndex(sh.b, FillColumns(sh.idx, sh.b.n.Defs[i].Columns),
                                           env, "index")
                     ELSE [b |-> sh.b, idx |-> FillColumns(sh.idx, sh.b.n.Defs[i].Columns)],
                     sh.b.n.Defs[i], primary)

\* A sharded index in a definition with INTERLEAVE, or a sharded primary key
\* constraint in an interleaved table.
ShardedInterleaved(b, d) ==
    /\ d.Sharded # 0
    /\ IF d.kind = "unique" THEN b.n.Interleave # NoInterleave /\ d.PrimaryKey
       ELSE d.Interleave

\* One iteration of the index pass, for n.Defs[i]: IndexTableDef and
\* UniqueConstraintTableDef; the other kinds are handled elsewhere.
IndexDef(b, i, env) ==
    IF b.n.Defs[i].kind \notin {"index", "unique"} THEN b
    ELSE IF ShardedInterleaved(b, b.n.Defs[i]) THEN Fail(b, "FeatureNotSupported")
    ELSE IndexDefPartition(
             IF b.n.Defs[i].Sharded # 0
             THEN setupShardedIndexForNewTable(b, i,
                      IndexDescriptor(b.n.Defs[i].Name, b.n.Defs[i].kind = "unique",
                                      <<>>, <<>>), env)
             ELSE [b |-> b,
                   idx |-> IndexDescriptor(b.n.Defs[i].Name, b.n.Defs[i].kind = "unique",
                                           <<>>, <<>>)],
             i, b.n.Defs[i].kind = "unique" /\ b.n.Defs[i].PrimaryKey, env)

RECURSIVE IndexPassFrom(_, _, _)
IndexPassFrom(b, i, env) ==
    IF i > Len(b.n.Defs) \/ b.err # NoError THEN b
    ELSE IndexPassFrom(IndexDef(b, i, env), i + 1, env)

\* Variant: the columns of the primary-key constraint are not collected.
primaryIndexColumnSet_Empty(defs) == {}

\* primaryIndexColumnSet: the columns of a table-level PRIMARY KEY constraint.
primaryIndexColumnSet(defs) ==
    UNION {{defs[i].Columns[k].Column : k \in 1..Len(defs[i].Columns)} :
              i \in {j \in DefsOfKind(defs, "unique") : defs[j].PrimaryKey}}

\* The index pass, the explicit-primary-key requirement and the marking of
\* the primary-key constraint's columns as not nullable.
IndexPass(b, env) ==
    LET b1 == IndexPassFrom(b, 1, env)
        pkCols == primaryIndexColumnSet(b1.n.Defs)
    IN  IF b1.err # NoError THEN b1
        ELSE IF b1.desc.PrimaryIndex.ColumnNames = <<>> /\ env.RequireExplicitPrimaryKeys
             THEN Fail(b1, "NoPrimaryKey")
        ELSE [b1 EXCEPT !.desc.Columns =
                 [k \in 1..Len(@) |->
                     IF @[k].Name \in pkCols THEN [@[k] EXCEPT !.Nullable = FALSE]
                     ELSE @[k]]]

\* Variant: the error of AllocateIDs is dropped.
CheckedAllocateIDs_Unchecked(b) == [b EXCEPT !.desc = AllocateIDs(@)]

\* if err := desc.AllocateIDs(ctx); err != nil { return nil, err }
CheckedAllocateIDs(b) ==
    [b EXCEPT !.desc = AllocateIDs(@),
              !.err = IF AllocateIDsFails(b.desc) THEN "InvalidTableDefinition" ELSE @]

\* Variant: the first allocation is not made.
AllocateFirst_Skipped(b) == b

\* The first desc.AllocateIDs.
AllocateFirst(b) == CheckedAllocateIDs(Called(b, "AllocateIDs"))

\* n.Interleave and n.PartitionBy, applied to the primary index.
InterleavePartition(b, vt, env) ==
    LET r == addInterleave(vt, b.desc, b.desc.PrimaryIndex, b.n.Interleave)
        b1 == IF b.n.Interleave = NoInterleave THEN b
              ELSE IF r.err # NoError THEN Fail(Called(b, "addInterleave"), r.err)
              ELSE [Called(b, "addInterleave") EXCEPT
                        !.desc = [r.tbl EXCEPT !.PrimaryIndex = r.index]]
        part == PartitionedIndex(b1, b1.desc.PrimaryIndex, env, "primary")
    IN  IF b1.err # NoError \/ ~b1.n.PartitionBy THEN b1
        ELSE IF part.b.err # NoError THEN part.b
        ELSE [part.b EXCEPT !.desc.PrimaryIndex = part.idx]

\* The sequences a default expression reads: the arguments of nextval.
RECURSIVE getUsedSequenceNames(_)
getUsedSequenceNames(e) ==
    IF e.node = "FuncExpr"
    THEN IF e.Func = "nextval" THEN <<e.Exprs[1].Value>> ELSE <<>>
    ELSE IF e.node = "BinaryExpr"
    THEN getUsedSequenceNames(e.Left) \o getUsedSequenceNames(e.Right)
    ELSE <<>>

\* maybeAddSequenceDependencies for the column at position `pos` of
\* desc.Columns: the column records the sequence, the sequence records the
\* column, and the changed sequence descriptors go into `affected`.
RECURSIVE AddSequenceDependencies(_, _, _, _)
AddSequenceDependencies(b, vt, pos, seqNames) ==
    IF seqNames = <<>> THEN b
    ELSE IF ~Resolvable(vt, b.desc, Head(seqNames)) THEN Fail(b, "UndefinedTable")
    ELSE LET found == ResolveTable(vt, b.desc, Head(seqNames))
             seqDesc == IF found.ID \in DOMAIN b.affected THEN b.affected[found.ID]
                        ELSE found
             col == b.desc.Columns[pos]
             seq2 == [seqDesc EXCEPT !.DependedOnBy =
                          Append(@, [ID |-> b.desc.ID, ColumnIDs |-> <<col.ID>>])]
             b1 == [b EXCEPT !.desc.Columns[pos].UsesSequenceIds = @ \cup {found.ID},
                             !.affected = (found.ID :> seq2) @@ @]
         IN  AddSequenceDependencies(b1, vt, pos, Tail(seqNames))

\* The sequence-dependency loop: i ranges over n.Defs, colIdx counts the
\* column definitions seen so far and indexes desc.Columns.
RECURSIVE SequenceDependenciesFrom(_, _, _, _)
SequenceDependenciesFrom(b, vt, i, colIdx) ==
    IF i > Len(b.n.Defs) \/ b.err # NoError THEN b
    ELSE IF b.n.Defs[i].kind # "col" THEN SequenceDependenciesFrom(b, vt, i + 1, colIdx)
    ELSE IF b.columnDefaultExprs[i] = NilExpr
         THEN SequenceDependenciesFrom(b, vt, i + 1, colIdx + 1)
    ELSE SequenceDependenciesFrom(
             AddSequenceDependencies(Called(b, "maybeAddSequenceDependencies"), vt,
                 colIdx + 1, getUsedSequenceNames(b.columnDefaultExprs[i])),
             vt, i + 1, colIdx + 1)

SequenceDependencies(b, vt) == SequenceDependenciesFrom(b, vt, 1, 0)

\* The pairs the loop makes: the definition i whose default expression is
\* passed to maybeAddSequenceDependencies and the position colIdx of the
\* column of desc.Columns passed with it.
RECURSIVE SequencePairsFrom(_, _, _, _)
SequencePairsFrom(defs, exprs, i, colIdx) ==
    IF i > Len(defs) THEN <<>>
    ELSE IF defs[i].kind # "col" THEN SequencePairsFrom(defs, exprs, i + 1, colIdx)
    ELSE (IF exprs[i] # NilExpr THEN <<[Def |-> i, Column |-> colIdx + 1]>> ELSE <<>>)
             \o SequencePairsFrom(defs, exprs, i + 1, colIdx + 1)

\* The columns an expression names.
RECURSIVE ColumnRefs(_)
ColumnRefs(e) ==
    LET RECURSIVE All(_)
        All(es) == IF es = <<>> THEN {} ELSE ColumnRefs(Head(es)) \cup All(Tail(es))
    IN  CASE e.node = "ColumnItem" -> {e.ColumnName}
          [] e.node = "CastExpr" -> ColumnRefs(e.Expr)
          [] e.node \in {"CoalesceExpr", "FuncExpr", "Tuple"} -> All(e.Exprs)
          [] e.node \in {"BinaryExpr", "ComparisonExpr"} ->
                 ColumnRefs(e.Left) \cup ColumnRefs(e.Right)
          [] OTHER -> {}

\* schemaexpr.CheckConstraintBuilder.Build: the check descriptor of a CHECK
\* definition, named after its columns when it has no name.
BuildCheck(tbl, d) ==
    LET cols == ColumnRefs(d.Expr)
        ordered == SelectSeq([k \in 1..Len(tbl.Columns) |-> tbl.Columns[k].Name],
                             LAMBDA c : c \in cols)
        name == IF d.Name # "" THEN d.Name
                ELSE GenerateUniqueConstraintName("check_" \o JoinNames(ordered),
                                                  ConstraintNames(tbl))
    IN  [Name |-> name, Expr |-> Serialize(d.Expr), Hidden |-> d.Hidden,
         ColumnIDs |-> {FindColumnByName(tbl, c).ID : c \in cols},
         Validity |-> "Validated"]

\* The descriptor and backrefs after a ResolveFK call of the constraint pass.
ResolvedFK(b, fk) ==
    [b EXCEPT !.desc = fk.tbl, !.affected = fk.backrefs, !.err = fk.err]

\* One iteration of the constraint pass, for n.Defs[i].
ConstraintDef(b, i, fkResolver, st) ==
    IF b.n.Defs[i].kind = "check"
    THEN IF \E c \in ColumnRefs(b.n.Defs[i].Expr) : ~HasColumn(b.desc, c)
         THEN Fail(Called(b, "ckBuilder.Build"), "UndefinedColumn")
         ELSE [Called(b, "ckBuilder.Build") EXCEPT
                  !.desc.Checks = Append(@, BuildCheck(b.desc, b.n.Defs[i]))]
    ELSE IF b.n.Defs[i].kind = "fk"
    THEN ResolvedFK(Called(b, "ResolveFK"),
                    ResolveFK(fkResolver, b.desc, b.n.Defs[i], b.affected,
                              "NewTable", "ValidationDefault", st))
    ELSE b

RECURSIVE ConstraintPassFrom(_, _, _, _)
ConstraintPassFrom(b, i, fkResolver, st) ==
    IF i > Len(b.n.Defs) \/ b.err # NoError THEN b
    ELSE ConstraintPassFrom(ConstraintDef(b, i, fkResolver, st), i + 1, fkResolver, st)

\* fkSelfResolver wraps the resolver so that the new table's own name
\* resolves to the descriptor being built.
fkSelfResolver(vt, newTableName) == [vt EXCEPT !.newTableName = newTableName]

ConstraintPass(b, vt, st) ==
    ConstraintPassFrom(b, 1, fkSelfResolver(vt, b.n.Table), st)

\* schemaexpr.ComputedColumnValidator.Validate: a computed column may not
\* read a column of a foreign key whose action rewrites it.
ComputedColumnInvalid(tbl, d) ==
    \E f \in Range(tbl.OutboundFKs) :
        /\ \E c \in ColumnRefs(d.Computed) :
               HasColumn(tbl, c) /\ FindColumnByName(tbl, c).ID \in Range(f.OriginColumnIDs)
        /\ \/ f.OnDelete \notin {"NO ACTION", "RESTRICT"}
           \/ f.OnUpdate \notin {"NO ACTION", "RESTRICT"}

RECURSIVE ValidateComputedFrom(_, _)
ValidateComputedFrom(b, i) ==
    IF i > Len(b.n.Defs) \/ b.err # NoError THEN b
    ELSE LET d == b.n.Defs[i]
         IN  IF d.kind = "col" /\ d.Computed # NilExpr
             THEN ValidateComputedFrom(
                      IF ComputedColumnInvalid(b.desc, d)
                      THEN Fail(Called(b, "computedColValidator.Validate"),
                                "InvalidTableDefinition")
                      ELSE Called(b, "computedColValidator.Validate"), i + 1)
             ELSE ValidateComputedFrom(b, i + 1)

\* The tail of NewTableDesc: computed-column validation, the second
\* desc.AllocateIDs and the locality configuration.
Finalize(b, env) ==
    LET b1 == ValidateComputedFrom(b, 1)
        b2 == CheckedAllocateIDs(Called(b1, "AllocateIDs"))
    IN  IF b1.err # NoError THEN b1
        ELSE IF b2.err # NoError \/ b2.n.Locality = "" THEN b2
        ELSE IF ~env.LocalityOK THEN Fail(Called(b2, "ValidateTableLocalityConfig"),
                                          "InvalidTableDefinition")
        ELSE [Called(b2, "ValidateTableLocalityConfig") EXCEPT
                 !.desc.LocalityConfig = b2.n.Locality]

-----------------------------------------------------------------------------
(* The catalog the statement runs against, and the statements.             *)

\* The database of the statement.
dbID == 50

\* A table (a INT PRIMARY KEY, b STRING) as a committed CREATE TABLE left it.
ExistingTable(id, name) ==
    LET a == ColumnDescriptor("a", "INT", FALSE, "", "", FALSE)
        b == ColumnDescriptor("b", "STRING", TRUE, "", "", FALSE)
        t == AddColumn(AddColumn(InitTableDescriptor(id, dbID, name, FALSE), a), b)
    IN  AllocateIDs(AddIndex(t, IndexDescriptor("", TRUE, <<"a">>, <<"ASC">>), TRUE))

\* `p` was committed before the transaction, `n` was created earlier in it.
InitialStore == (52 :> ExistingTable(52, "p")) @@ (53 :> ExistingTable(53, "n"))
InitialUncommitted == 53 :> TRUE
FirstFreeID == 54

ColA(nullability, primaryKey) ==
    ColumnTableDef("a", "INT", nullability, NilExpr, primaryKey, FALSE, NilExpr)

PlainColA ==
    {ColA("SilentNull", ColumnPrimaryKey), ColA("NotNull", NotPrimaryKey),
     ColA("SilentNull", NotPrimaryKey)}

ShardedColA == {ColA("SilentNull", ShardedPrimaryKey(k)) : k \in 1..MaxBuckets}

ColB(type, defaultExpr, isSerial, computed) ==
    ColumnTableDef("b", type, "SilentNull", defaultExpr, NotPrimaryKey, isSerial, computed)

\* No second column, or b STRING, or b INT DEFAULT 1.
PlainColB ==
    {<<>>, <<ColB("STRING", NilExpr, FALSE, NilExpr)>>,
     <<ColB("INT", NumVal(1), FALSE, NilExpr)>>}

\* b STRING AS (a::STRING) STORED, or b SERIAL.
SpecialColB ==
    {<<ColB("STRING", NilExpr, FALSE, CastExpr(ColumnItem("a"), "STRING"))>>,
     <<ColB("INT", NilExpr, TRUE, NilExpr)>>}

IndexElem(column) == [Column |-> column, Direction |-> "ASC"]

IndexDefs ==
    {<<>>, <<IndexTableDef("", <<IndexElem("b")>>, TRUE)>>,
     <<UniqueConstraintTableDef("", <<IndexElem("b")>>, FALSE)>>,
     <<UniqueConstraintTableDef("", <<IndexElem("a")>>, TRUE)>>}

\* INDEX (b) USING HASH, alone, with its own PARTITION BY and with its own
\* INTERLEAVE clause, and PRIMARY KEY (a) USING HASH.
ShardedIndexDefs ==
    {[IndexTableDef("", <<IndexElem("b")>>, part) EXCEPT
         !.Sharded = MaxBuckets, !.Interleave = il] :
        part \in BOOLEAN, il \in BOOLEAN}
    \cup {[UniqueConstraintTableDef("", <<IndexElem("a")>>, TRUE) EXCEPT
              !.Sharded = MaxBuckets]}

FK(name, fromCol, table, toCols, delete) ==
    ForeignKeyConstraintTableDef(name, <<fromCol>>, table, toCols, delete, "NO ACTION")

\* Foreign keys to the committed table p, to the table n of the same
\* transaction, to the table being created (c) and to a table that does not
\* exist (x).
FKDefs ==
    {FK("", "a", "p", <<"a">>, "NO ACTION"), FK("", "a", "p", <<"a">>, "SET NULL"),
     FK("", "a", "p", <<"a">>, "SET DEFAULT"), FK("fk1", "a", "p", <<>>, "NO ACTION"),
     FK("", "a", "n", <<"a">>, "NO ACTION"), FK("", "a", "n", <<"a">>, "SET NULL"),
     FK("", "a", "c", <<"a">>, "NO ACTION"), FK("", "a", "c", <<"a">>, "SET NULL"),
     FK("", "a", "x", <<"a">>, "NO ACTION"), FK("", "b", "p", <<"a">>, "NO ACTION"),
     FK("", "b", "p", <<"b">>, "NO ACTION"), FK("fk1", "a", "n", <<"a">>, "NO ACTION")}

FewFKs == {<<>>, <<FK("", "a", "p", <<"a">>, "NO ACTION")>>,
           <<FK("", "a", "n", <<"a">>, "SET NULL")>>}

Interleaves ==
    {InterleaveDef("p", <<"a">>), InterleaveDef("n", <<"a">>),
     InterleaveDef("p", <<"b">>), InterleaveDef("x", <<"a">>)}

Statement(table, ifNotExists, defs, interleave, partitionBy, locality) ==
    [CreateTable(table, defs, interleave, partitionBy, locality)
        EXCEPT !.IfNotExists = ifNotExists]

\* The statements: tables with foreign keys, tables with special columns,
\* indexes, partitioning and locality, interleaved tables, and permanent and
\* temporary tables whose name is taken (p), free (t) or a type alias (box2d),
\* and tables with a hash-sharded index or primary-key constraint.
Statements ==
    {Statement("c", FALSE, <<a>> \o b \o fks, NoInterleave, FALSE, "") :
        a \in PlainColA, b \in PlainColB, fks \in SeqsUpTo(FKDefs, MaxFKs)}
    \cup
    {Statement("c", FALSE, <<a>> \o b \o i \o fks, NoInterleave, part, loc) :
        a \in PlainColA \cup ShardedColA, b \in PlainColB \cup SpecialColB,
        i \in IndexDefs, fks \in FewFKs, part \in BOOLEAN, loc \in {"", "GLOBAL"}}
    \cup
    {Statement("c", FALSE, <<a>> \o b \o fks, i, FALSE, "") :
        a \in PlainColA \cup ShardedColA, b \in {<<>>, <<ColB("STRING", NilExpr, FALSE, NilExpr)>>},
        fks \in FewFKs, i \in Interleaves}
    \cup
    {[Statement(t, ine, <<a>>, NoInterleave, FALSE, "") EXCEPT !.Persistence = pers] :
        t \in {"p", "t", "box2d"}, a \in PlainColA, ine \in BOOLEAN,
        pers \in {"permanent", "temporary"}}
    \cup
    {Statement("c", FALSE, <<ColA(nl, NotPrimaryKey), ColB("STRING", NilExpr, FALSE, NilExpr), i>>,
               il, part, "") :
        nl \in {"SilentNull", "NotNull"}, i \in ShardedIndexDefs,
        il \in {NoInterleave, InterleaveDef("p", <<"a">>)}, part \in BOOLEAN}

-----------------------------------------------------------------------------
(* createTableNode.startExec, one action per step.  `pc` is the step the   *)
(* statement is at; once `err` is set the statement has returned it and pc *)
(* stays at the step that failed.                                          *)

Running(at) == pc = at /\ err = NoError

\* The build record of the state, and the state of a build record.
Build == [n |-> n, desc |-> desc, columnDefaultExprs |-> columnDefaultExprs,
          affected |-> affected, calls |-> calls, err |-> NoError]

Built(b, next) ==
    /\ n' = b.n
    /\ desc' = b.desc
    /\ columnDefaultExprs' = b.columnDefaultExprs
    /\ affected' = b.affected
    /\ calls' = b.calls
    /\ err' = b.err
    /\ pc' = IF b.err = NoError THEN next ELSE pc

\* A setting (or the outcome of an external call) the statement reads.
Reads(name, value) == settings' = (name :> value) @@ settings

\* The schema resolver of the planner: the transaction's view, uncached.
vt == [newTableName |-> "", store |-> store]

\* A descriptor write of the transaction.
Write(op, d) == [Op |-> op, ID |-> d.ID, Desc |-> d]

\* types.PublicSchemaAliases: names of the public schema taken by built-in
\* type aliases.
PublicSchemaAliases == {"box2d"}

\* catalogkv.LookupObjectID in the schema the table goes to.  The tables of
\* the catalog are permanent, so a name of the temporary schema is free.
LookupObjectID(tables, stmt) ==
    stmt.Persistence = "permanent" /\ StoreIDsByName(tables, stmt.Table) # {}

\* getTableCreateParams: the error it returns and the settings it read.  env
\* is what the session and the catalog answer: TempTablesEnabled,
\* TemporarySchemaExists, canCreateOnSchema.
getTableCreateParams(tables, stmt, env) ==
    LET temporary == stmt.Persistence = "temporary"
        enabled == "TempTablesEnabled" :> env.TempTablesEnabled
        schema == "TemporarySchema" :>
                      (IF env.TemporarySchemaExists THEN "found" ELSE "created")
        priv == "canCreateOnSchema" :> env.canCreateOnSchema
        reads == IF temporary THEN priv @@ schema @@ enabled ELSE priv
    IN  IF stmt.Table \in PublicSchemaAliases
        THEN [err |-> "DuplicateObject", reads |-> <<>>]
        ELSE IF temporary /\ ~env.TempTablesEnabled
        THEN [err |-> "FeatureNotSupported", reads |-> enabled]
        ELSE IF ~env.canCreateOnSchema
        THEN [err |-> "InsufficientPrivilege", reads |-> reads]
        ELSE IF LookupObjectID(tables, stmt)
        THEN [err |-> "DuplicateRelation", reads |-> reads]
        ELSE [err |-> NoError, reads |-> reads]

\* Variant: IF NOT EXISTS swallows any error of getTableCreateParams.
SuppressedByIfNotExists_AnyError(code, stmt) == stmt.IfNotExists

\* sqlerrors.IsRelationAlreadyExistsError(err) && n.n.IfNotExists.
SuppressedByIfNotExists(code, stmt) == code = "DuplicateRelation" /\ stmt.IfNotExists

\* getTableCreateParams, the IF NOT EXISTS shortcut and GenerateUniqueDescID.
StartExec ==
    /\ Running("start")
    /\ \E ok, tempEnabled, schemaExists, canCreate \in BOOLEAN :
        LET params == getTableCreateParams(store, n,
                          [TempTablesEnabled |-> tempEnabled,
                           TemporarySchemaExists |-> schemaExists,
                           canCreateOnSchema |-> canCreate])
        IN  IF params.err # NoError
            THEN /\ err' = IF SuppressedByIfNotExists(params.err, n) THEN NoError
                           ELSE params.err
                 /\ pc' = IF SuppressedByIfNotExists(params.err, n) THEN "done" ELSE pc
                 /\ settings' = params.reads @@ settings
                 /\ UNCHANGED <<desc, nextID>>
            ELSE IF ~ok
            THEN /\ err' = "KVError"
                 /\ settings' = ("GenerateUniqueDescID" :> ok) @@ params.reads @@ settings
                 /\ UNCHANGED <<pc, desc, nextID>>
            ELSE /\ desc' = [ID |-> nextID]
                 /\ nextID' = nextID + 1
                 /\ pc' = "newTableDesc"
                 /\ settings' = ("GenerateUniqueDescID" :> ok) @@ params.reads @@ settings
                 /\ UNCHANGED err
    /\ UNCHANGED <<n, affected, columnDefaultExprs, store, uncommitted, writes, calls, fn>>

\* processSerialInColumnDef: SERIAL becomes INT NOT NULL with a default that
\* is unique_rowid() or, in sql_sequence mode, nextval of a new sequence.
SequenceNameFor(table, d) == table \o "_" \o d.Name \o "_seq"

processSerialInColumnDef(table, d, mode) ==
    [d EXCEPT !.IsSerial = FALSE, !.Type = "INT", !.Nullability = "NotNull",
              !.DefaultExpr = IF mode = "sql_sequence"
                              THEN FuncExpr("nextval", <<DString(SequenceNameFor(table, d))>>)
                              ELSE FuncExpr("unique_rowid", <<>>)]

\* The sequence descriptor doCreateSequence creates and writes.
SequenceDescriptor(id, name) ==
    [InitTableDescriptor(id, dbID, name, FALSE) EXCEPT !.IsSequence = TRUE]

\* The SERIAL loop of newTableDesc.  The statements have at most one SERIAL
\* column, so the loop creates at most one sequence.
ProcessSerial ==
    /\ Running("newTableDesc")
    /\ LET serial == {i \in DefsOfKind(n.Defs, "col") : n.Defs[i].IsSerial}
       IN  IF serial = {}
           THEN /\ pc' = "columns"
                /\ UNCHANGED <<n, store, uncommitted, writes, nextID, err, settings>>
           ELSE \E mode \in {"rowid", "sql_sequence"}, ok \in BOOLEAN :
                LET i == CHOOSE j \in serial : TRUE
                    seq == SequenceDescriptor(nextID, SequenceNameFor(n.Table, n.Defs[i]))
                IN  /\ settings' = ("SerialNormalizationMode" :> mode) @@
                                   (IF mode = "sql_sequence"
                                    THEN ("doCreateSequence" :> ok) @@ settings
                                    ELSE settings)
                    /\ IF mode = "sql_sequence" /\ ~ok
                       THEN /\ err' = "KVError"
                            /\ UNCHANGED <<pc, n, store, uncommitted, writes, nextID>>
                       ELSE /\ n' = [n EXCEPT !.Defs[i] =
                                        processSerialInColumnDef(n.Table, @, mode)]
                            /\ pc' = "columns"
                            /\ UNCHANGED err
                            /\ IF mode = "sql_sequence"
                               THEN /\ store' = (seq.ID :> seq) @@ store
                                    /\ uncommitted' = (seq.ID :> TRUE) @@ uncommitted
                                    /\ writes' = Append(writes, Write("createSequence", seq))
                                    /\ nextID' = nextID + 1
                               ELSE UNCHANGED <<store, uncommitted, writes, nextID>>
    /\ UNCHANGED <<desc, affected, columnDefaultExprs, calls, fn>>

\* NewTableDesc: InitTableDescriptor and the column pass.
ColumnPassStep ==
    /\ Running("columns")
    /\ \E enabled \in BOOLEAN :
        LET b0 == [Build EXCEPT
                      !.desc = InitTableDescriptor(desc.ID, dbID, n.Table,
                                                   n.Persistence = "temporary"),
                      !.columnDefaultExprs = [i \in 1..Len(n.Defs) |-> NilExpr]]
            sharded == \E i \in DefsOfKind(n.Defs, "col") : n.Defs[i].PrimaryKey.Sharded
        IN  /\ Built(ColumnPass(b0, [HashShardedIndexesEnabled |-> enabled]), "indexes")
            /\ IF sharded THEN Reads("HashShardedIndexesEnabled", enabled)
               ELSE UNCHANGED settings
    /\ UNCHANGED <<store, uncommitted, writes, nextID, fn>>

\* NewTableDesc: the index pass.
IndexPassStep ==
    /\ Running("indexes")
    /\ \E partitioningOK \in BOOLEAN, requirePK \in BOOLEAN, enabled \in BOOLEAN :
        /\ "HashShardedIndexesEnabled" \in DOMAIN settings =>
               enabled = settings["HashShardedIndexesEnabled"]
        /\ ShardedIndexDefsOf(n.Defs) = {} => enabled
        /\ Built(IndexPass(Build, [PartitioningOK |-> partitioningOK,
                                   RequireExplicitPrimaryKeys |-> requirePK,
                                   HashShardedIndexesEnabled |-> enabled]), "allocate")
        /\ settings' = (IF ShardedIndexDefsOf(n.Defs) # {}
                        THEN "HashShardedIndexesEnabled" :> enabled ELSE <<>>) @@
                       (IF desc.PrimaryIndex.ColumnNames = <<>>
                           /\ primaryIndexColumnSet(n.Defs) = {}
                        THEN "RequireExplicitPrimaryKeys" :> requirePK ELSE <<>>) @@
                       (IF \E i \in DOMAIN n.Defs :
                              n.Defs[i].kind \in {"index", "unique"} /\ n.Defs[i].PartitionBy
                        THEN "CreatePartitioning:index" :> partitioningOK ELSE <<>>) @@
                       settings
    /\ UNCHANGED <<store, uncommitted, writes, nextID, fn>>

\* NewTableDesc: the first desc.AllocateIDs.
AllocateFirstStep ==
    /\ Running("allocate")
    /\ Built(AllocateFirst(Build), "interleave")
    /\ UNCHANGED <<settings, store, uncommitted, writes, nextID, fn>>

\* NewTableDesc: addInterleave and CreatePartitioning on the primary index.
InterleavePartitionStep ==
    /\ Running("interleave")
    /\ \E partitioningOK \in BOOLEAN :
        /\ Built(InterleavePartition(Build, vt, [PartitioningOK |-> partitioningOK]),
                 "sequences")
        /\ IF n.PartitionBy THEN Reads("CreatePartitioning:primary", partitioningOK)
           ELSE UNCHANGED settings
    /\ UNCHANGED <<store, uncommitted, writes, nextID, fn>>

\* NewTableDesc: the sequence dependencies of the default expressions.
SequenceDependenciesStep ==
    /\ Running("sequences")
    /\ Built(SequenceDependencies(Build, vt), "constraints")
    /\ UNCHANGED <<settings, store, uncommitted, writes, nextID, fn>>

\* NewTableDesc: CHECK constraints and foreign keys.
ConstraintPassStep ==
    /\ Running("constraints")
    /\ \E noOriginFKIndexes \in BOOLEAN :
        /\ Built(ConstraintPass(Build, vt,
                     [NoOriginFKIndexes |-> noOriginFKIndexes,
                      allowCrossDatabaseFKs |-> FALSE]), "finalize")
        /\ IF DefsOfKind(n.Defs, "fk") # {}
           THEN Reads("NoOriginFKIndexes", noOriginFKIndexes)
           ELSE UNCHANGED settings
    /\ UNCHANGED <<store, uncommitted, writes, nextID, fn>>

\* NewTableDesc: computed columns, the second AllocateIDs, locality.
FinalizeStep ==
    /\ Running("finalize")
    /\ \E localityOK \in BOOLEAN :
        /\ Built(Finalize(Build, [LocalityOK |-> localityOK]), "built")
        /\ IF n.Locality # "" THEN Reads("ValidateTableLocalityConfig", localityOK)
           ELSE UNCHANGED settings
    /\ UNCHANGED <<store, uncommitted, writes, nextID, fn>>

\* desc.FindAllReferences: the tables of the foreign keys in either
\* direction, of the interleave relations, the sequences the columns use and
\* the descriptors that depend on the table.
FindAllReferences(tbl) ==
    {f.ReferencedTableID : f \in Range(tbl.OutboundFKs)}
        \cup {f.OriginTableID : f \in Range(tbl.InboundFKs)}
        \cup UNION {{a.TableID : a \in Range(i.Interleave)} \cup
                    {c.Table : c \in Range(i.InterleavedBy)} :
                       i \in Range(AllNonDropIndexes(tbl))}
        \cup UNION {c.UsesSequenceIds : c \in Range(tbl.Columns)}
        \cup {d.ID : d \in Range(tbl.DependedOnBy)}

\* Descriptors().GetUncommittedTableByID(id) is a table and IsNew().
IsNewInTxn(id) == id \in DOMAIN uncommitted /\ uncommitted[id]

\* The state decision after newTableDesc: a table in state ADD whose
\* references are all new in the transaction becomes PUBLIC.
DecideState ==
    /\ Running("built")
    /\ desc' = IF desc.State = "ADD" /\ \A id \in FindAllReferences(desc) : IsNewInTxn(id)
               THEN [desc EXCEPT !.State = "PUBLIC"]
               ELSE desc
    /\ pc' = "create"
    /\ UNCHANGED <<settings, n, affected, columnDefaultExprs, store, uncommitted,
                   writes, calls, err, nextID, fn>>

\* createDescriptorWithID
CreateDescriptor ==
    /\ Running("create")
    /\ \E ok \in BOOLEAN :
        IF ok
        THEN /\ store' = (desc.ID :> desc) @@ store
             /\ uncommitted' = (desc.ID :> TRUE) @@ uncommitted
             /\ writes' = Append(writes, Write("createDescriptorWithID", desc))
             /\ pc' = "affected"
             /\ UNCHANGED err
        ELSE /\ err' = "KVError"
             /\ UNCHANGED <<pc, store, uncommitted, writes>>
    /\ calls' = Append(calls, "createDescriptorWithID")
    /\ UNCHANGED <<settings, n, desc, affected, columnDefaultExprs, nextID, fn>>

\* p.writeSchemaChange: the descriptor becomes the transaction's version.
writeSchemaChange(st, op, d) ==
    [st EXCEPT !.store = (d.ID :> d) @@ @,
               !.uncommitted = (d.ID :> (d.ID \in DOMAIN @ /\ @[d.ID])) @@ @,
               !.writes = Append(@, Write(op, d))]

\* Variant: the loop over `affected` is taken to have written all of them.
AffectedWritten_All == DOMAIN affected

\* The siblings of `affected` the loop has written so far.
AffectedWritten == {w.ID : w \in {x \in Range(writes) : x.Op = "updateAffected"}}

\* One iteration of the loop over `affected`; a Go map is ranged over in
\* any order.
WriteAffected ==
    /\ Running("affected")
    /\ \E id \in DOMAIN affected \ AffectedWritten, ok \in BOOLEAN :
        LET st == writeSchemaChange([store |-> store, uncommitted |-> uncommitted,
                                     writes |-> writes], "updateAffected", affected[id])
        IN  IF ok
            THEN /\ store' = st.store
                 /\ uncommitted' = st.uncommitted
                 /\ writes' = st.writes
                 /\ UNCHANGED err
            ELSE /\ err' = "KVError"
                 /\ UNCHANGED <<store, uncommitted, writes>>
    /\ calls' = Append(calls, "writeSchemaChange")
    /\ UNCHANGED <<pc, settings, n, desc, affected, columnDefaultExprs, nextID, fn>>

\* ancestorTable.FindIndexByID(id) with backref appended to its InterleavedBy.
AddInterleavedBy(tbl, id, backref) ==
    IF tbl.PrimaryIndex.ID = id
    THEN [tbl EXCEPT !.PrimaryIndex.InterleavedBy = Append(@, backref)]
    ELSE [tbl EXCEPT !.Indexes =
             [k \in 1..Len(@) |->
                 IF @[k].ID = id THEN [@[k] EXCEPT !.InterleavedBy = Append(@, backref)]
                 ELSE @[k]]]

\* Variant: the back-reference goes to the first ancestor of the chain.
LastAncestor_First(index) == index.Interleave[1]

\* Only the last ancestor needs the back-reference.
LastAncestor(index) == index.Interleave[Len(index.Interleave)]

\* Variant: the ancestor is read as it was before the statement.
AncestorTable_Committed(st, ancestor) ==
    IF ancestor.TableID = st.desc.ID THEN st.desc ELSE InitialStore[ancestor.TableID]

\* The ancestor's descriptor: the table itself, or the transaction's version
\* of the ancestor (GetMutableTableVersionByID reads the transaction's own
\* writes).
AncestorTable(st, ancestor) ==
    IF ancestor.TableID = st.desc.ID THEN st.desc ELSE st.store[ancestor.TableID]

\* planner.finalizeInterleave on st = [desc, store, uncommitted, writes,
\* calls, err].  failAt is the write that fails: 1 the ancestor's, 2 the
\* child's, 0 none.
finalizeInterleave(st0, index, failAt) ==
    LET st == Called(st0, "finalizeInterleave")
        ancestor == LastAncestor(index)
        self == ancestor.TableID = st.desc.ID
        ancestorTable == AncestorTable(st, ancestor)
        backref == [Table |-> st.desc.ID, Index |-> index.ID]
        updated == AddInterleavedBy(ancestorTable, ancestor.IndexID, backref)
        st1 == writeSchemaChange([st EXCEPT !.desc = IF self THEN updated ELSE @],
                                 "updateAncestor", updated)
        public == [st1.desc EXCEPT !.State = "PUBLIC"]
        st2 == writeSchemaChange([st1 EXCEPT !.desc = public], "updateInterleaved", public)
    IN  IF index.Interleave = <<>> THEN st0
        ELSE IF failAt = 1 THEN [st EXCEPT !.err = "KVError",
                                           !.desc = IF self THEN updated ELSE @]
        ELSE IF st1.desc.State # "ADD" THEN st1
        ELSE IF failAt = 2 THEN [st1 EXCEPT !.err = "KVError", !.desc = public]
        ELSE st2

\* The loop over desc.AllNonDropIndexes() that calls finalizeInterleave.
RECURSIVE FinalizeInterleaves(_, _, _)
FinalizeInterleaves(st, k, failAt) ==
    IF st.err # NoError \/ k > Len(AllNonDropIndexes(st.desc)) THEN st
    ELSE FinalizeInterleaves(
             finalizeInterleave(st, AllNonDropIndexes(st.desc)[k], failAt), k + 1, failAt)

FinalizeInterleaveStep ==
    /\ Running("affected")
    /\ DOMAIN affected \ AffectedWritten = {}
    /\ \E failAt \in 0..2 :
        LET st == FinalizeInterleaves([desc |-> desc, store |-> store,
                                       uncommitted |-> uncommitted, writes |-> writes,
                                       calls |-> calls, err |-> NoError], 1, failAt)
        IN  /\ desc' = st.desc
            /\ calls' = st.calls
            /\ store' = st.store
            /\ uncommitted' = st.uncommitted
            /\ writes' = st.writes
            /\ err' = st.err
            /\ pc' = IF st.err = NoError THEN "validate" ELSE pc
    /\ UNCHANGED <<settings, n, affected, columnDefaultExprs, nextID, fn>>

\* desc.Validate against the transaction's view: every foreign key and
\* every interleave ancestor of the table has its back-reference.
ValidateCrossReferences(tbl, st) ==
    /\ \A f \in Range(tbl.OutboundFKs) :
           LET target == IF f.ReferencedTableID = tbl.ID THEN tbl
                         ELSE st[f.ReferencedTableID]
           IN  \E g \in Range(target.InboundFKs) :
                   g.OriginTableID = tbl.ID /\ g.Name = f.Name
    /\ \A i \in Range(AllNonDropIndexes(tbl)) :
           i.Interleave # <<>> =>
               LET ancestor == i.Interleave[Len(i.Interleave)]
                   parent == IF ancestor.TableID = tbl.ID THEN tbl
                             ELSE st[ancestor.TableID]
               IN  \E j \in Range(AllNonDropIndexes(parent)) :
                       /\ j.ID = ancestor.IndexID
                       /\ [Table |-> tbl.ID, Index |-> i.ID] \in Range(j.InterleavedBy)

\* The calls after the finalizeInterleave loop, in the order of startExec.
ClosingCalls == <<"addBackRefsFromAllTypesInTable", "Validate", "InsertEventRecord">>

\* addBackRefsFromAllTypesInTable (the tables have no user-defined types, so
\* it writes nothing), desc.Validate and the event log record.  failAt is
\* the call that returns an error of the store, 0 if none does.
ValidateAndLog ==
    /\ Running("validate")
    /\ \E failAt \in 0..3 :
        LET invalid == ~ValidateCrossReferences(desc, store)
            last == IF failAt # 0 /\ (failAt <= 2 \/ ~invalid) THEN failAt
                    ELSE IF invalid THEN 2 ELSE 3
        IN  /\ calls' = calls \o SubSeq(ClosingCalls, 1, last)
            /\ IF failAt # 0 /\ failAt = last
               THEN err' = "KVError" /\ UNCHANGED pc
               ELSE IF invalid THEN err' = "ValidationError" /\ UNCHANGED pc
               ELSE pc' = "done" /\ UNCHANGED err
    /\ UNCHANGED <<settings, n, desc, affected, columnDefaultExprs, store, uncommitted,
                   writes, nextID, fn>>

Init ==
    /\ pc = "start"
    /\ settings = <<>>
    /\ n \in Statements
    /\ desc = NoDesc
    /\ affected = <<>>
    /\ columnDefaultExprs = <<>>
    /\ store = InitialStore
    /\ uncommitted = InitialUncommitted
    /\ writes = <<>>
    /\ calls = <<>>
    /\ err = NoError
    /\ nextID = FirstFreeID
    /\ fn = [op |-> "none"]

Next ==
    \/ StartExec
    \/ ProcessSerial
    \/ ColumnPassStep
    \/ IndexPassStep
    \/ AllocateFirstStep
    \/ InterleavePartitionStep
    \/ SequenceDependenciesStep
    \/ ConstraintPassStep
    \/ FinalizeStep
    \/ DecideState
    \/ CreateDescriptor
    \/ WriteAffected
    \/ FinalizeInterleaveStep
    \/ ValidateAndLog

Spec == Init /\ [][Next]_vars

-----------------------------------------------------------------------------
(* The hash-shard helpers on their own: `fn` holds the arguments, then the *)
(* call and its result.                                                    *)

ShardColumnLists == SeqsUpTo({"a", "b", "c"}, MaxShardCols) \ {<<>>}

InitShard ==
    /\ pc = "helper"
    /\ settings = <<>>
    /\ n = Statement("c", FALSE, <<>>, NoInterleave, FALSE, "")
    /\ desc = NoDesc
    /\ affected = <<>>
    /\ columnDefaultExprs = <<>>
    /\ store = InitialStore
    /\ uncommitted = InitialUncommitted
    /\ writes = <<>>
    /\ calls = <<>>
    /\ err = NoError
    /\ nextID = FirstFreeID
    /\ fn \in {[op |-> "input", colNames |-> cs, buckets |-> k] :
                  cs \in ShardColumnLists, k \in 1..MaxBuckets}

Returned(op, out) ==
    /\ fn' = [op |-> op, colNames |-> fn.colNames, buckets |-> fn.buckets, out |-> out]
    /\ UNCHANGED <<pc, settings, n, desc, affected, columnDefaultExprs, store,
                   uncommitted, writes, calls, err, nextID>>

CallMakeHashShardComputeExpr ==
    /\ fn.op = "input"
    /\ Returned("makeHashShardComputeExpr", makeHashShardComputeExpr(fn.colNames, fn.buckets))

CallMakeShardColumnDesc ==
    /\ fn.op = "input"
    /\ Returned("makeShardColumnDesc", makeShardColumnDesc(fn.colNames, fn.buckets))

CallMakeShardCheckConstraintDef ==
    /\ fn.op = "input"
    /\ Returned("makeShardCheckConstraintDef",
                makeShardCheckConstraintDef(fn.buckets,
                    makeShardColumnDesc(fn.colNames, fn.buckets)))

NextShard ==
    \/ CallMakeHashShardComputeExpr
    \/ CallMakeShardColumnDesc
    \/ CallMakeShardCheckConstraintDef

SpecShard == InitShard /\ [][NextShard]_vars

-----------------------------------------------------------------------------
(* addInterleave on its own: a parent table, a child table whose primary   *)
(* index is to be interleaved, and an INTERLEAVE IN PARENT clause.         *)

\* The primary key shapes: one or two columns named a and b, each INT or
\* STRING, ascending or descending.
KeyColumns == [Name : {"a", "b"}, Type : {"INT", "STRING"}, Direction : {"ASC", "DESC"}]

KeyShapes ==
    {<<c>> : c \in KeyColumns}
        \cup {s \in KeyColumns \X KeyColumns : s[1].Name # s[2].Name}

RECURSIVE AddColumns(_, _)
AddColumns(tbl, shape) ==
    IF shape = <<>> THEN tbl
    ELSE AddColumns(AddColumn(tbl, ColumnDescriptor(Head(shape).Name, Head(shape).Type,
                                                    FALSE, "", "", FALSE)),
                    Tail(shape))

\* A table whose columns are those of its primary key.
KeyedTable(id, name, shape) ==
    AllocateIDs(AddIndex(AddColumns(InitTableDescriptor(id, dbID, name, FALSE), shape),
                         IndexDescriptor("", TRUE,
                             [i \in 1..Len(shape) |-> shape[i].Name],
                             [i \in 1..Len(shape) |-> shape[i].Direction]), TRUE))

\* The parent is a root table or is itself interleaved in a table whose
\* primary key is its first column.
ParentAncestors ==
    {<<>>, <<[TableID |-> 51, IndexID |-> 1, SharedPrefixLen |-> 1]>>}

ParentTable(shape, ancestors) ==
    [KeyedTable(52, "p", shape) EXCEPT !.PrimaryIndex.Interleave = ancestors]

InterleaveClauses ==
    {InterleaveDef("p", fields) : fields \in SeqsUpTo({"a", "b"}, MaxFields)}
        \cup {InterleaveDef("x", <<"a">>),
              [InterleaveDef("p", <<"a">>) EXCEPT !.DropBehavior = "DropCascade"]}

InitInterleave ==
    /\ pc = "helper"
    /\ settings = <<>>
    /\ n = Statement("c", FALSE, <<>>, NoInterleave, FALSE, "")
    /\ \E shape \in KeyShapes : desc = KeyedTable(FirstFreeID, "c", shape)
    /\ affected = <<>>
    /\ columnDefaultExprs = <<>>
    /\ \E shape \in KeyShapes, ancestors \in ParentAncestors :
           store = 52 :> ParentTable(shape, ancestors)
    /\ uncommitted = <<>>
    /\ writes = <<>>
    /\ calls = <<>>
    /\ err = NoError
    /\ nextID = FirstFreeID + 1
    /\ fn \in {[op |-> "input", interleave |-> i] : i \in InterleaveClauses}

CallAddInterleave ==
    /\ fn.op = "input"
    /\ LET r == addInterleave(vt, desc, desc.PrimaryIndex, fn.interleave)
       IN  /\ fn' = [op |-> "addInterleave", interleave |-> fn.interleave,
                     before |-> desc, err |-> r.err]
           /\ desc' = [r.tbl EXCEPT !.PrimaryIndex = r.index]
    /\ UNCHANGED <<pc, settings, n, affected, columnDefaultExprs, store,
                   uncommitted, writes, calls, err, nextID>>

NextInterleave == CallAddInterleave

SpecInterleave == InitInterleave /\ [][NextInterleave]_vars

-----------------------------------------------------------------------------
(* ResolveFK on its own: an origin table, new or existing, and a short     *)
(* list of foreign key definitions resolved one after the other with one   *)
(* backrefs map.  `desc` is the origin table, `affected` the backrefs map  *)
(* and `fn` the remaining definitions and the last call.                   *)

\* The origin table c (k INT PRIMARY KEY, a INT, b STRING): a is nullable or
\* NOT NULL, with or without DEFAULT 1.
OriginTable(nullable, defaultExpr) ==
    LET k == ColumnDescriptor("k", "INT", FALSE, "", "", FALSE)
        a == ColumnDescriptor("a", "INT", nullable, defaultExpr, "", FALSE)
        b == ColumnDescriptor("b", "STRING", TRUE, "", "", FALSE)
        t == AddColumn(AddColumn(AddColumn(
                 InitTableDescriptor(FirstFreeID, dbID, "c", FALSE), k), a), b)
    IN  AllocateIDs(AddIndex(t, IndexDescriptor("", TRUE, <<"k">>, <<"ASC">>), TRUE))

OriginTables == {OriginTable(nullable, e) : nullable \in BOOLEAN, e \in {"", "1"}}

\* Foreign keys from a to p, to n, to c itself and to a table that does not
\* exist, with the actions NO ACTION, SET NULL and SET DEFAULT, one of them
\* named fk1 and one named like the primary key, one from b that does not
\* match the referenced type and one from b to a column of p without a
\* unique index.
FKCallDefs ==
    {ForeignKeyConstraintTableDef("", <<"a">>, "p", <<"a">>, "NO ACTION", "NO ACTION"),
     ForeignKeyConstraintTableDef("fk1", <<"a">>, "p", <<>>, "CASCADE", "NO ACTION"),
     ForeignKeyConstraintTableDef("", <<"a">>, "p", <<"a">>, "SET NULL", "NO ACTION"),
     ForeignKeyConstraintTableDef("", <<"a">>, "n", <<"a">>, "NO ACTION", "SET NULL"),
     ForeignKeyConstraintTableDef("", <<"a">>, "n", <<"a">>, "SET DEFAULT", "NO ACTION"),
     ForeignKeyConstraintTableDef("primary", <<"a">>, "n", <<"a">>, "NO ACTION", "NO ACTION"),
     ForeignKeyConstraintTableDef("", <<"a">>, "c", <<"k">>, "NO ACTION", "NO ACTION"),
     ForeignKeyConstraintTableDef("", <<"a">>, "x", <<"a">>, "SET NULL", "NO ACTION"),
     ForeignKeyConstraintTableDef("", <<"b">>, "p", <<"a">>, "NO ACTION", "SET DEFAULT"),
     ForeignKeyConstraintTableDef("", <<"b">>, "p", <<"b">>, "NO ACTION", "NO ACTION")}

FKTableStates == {"NewTable", "EmptyTable", "NonEmptyTable"}

ValidationBehaviors == {"ValidationDefault", "ValidationSkip"}

NoFK == ForeignKeyConstraintTableDef("", <<>>, "", <<>>, "NO ACTION", "NO ACTION")

\* A new table is not in the catalog yet; an existing one is.
InitFK ==
    /\ pc = "helper"
    /\ settings = <<>>
    /\ n = Statement("c", FALSE, <<>>, NoInterleave, FALSE, "")
    /\ desc \in OriginTables
    /\ affected = <<>>
    /\ columnDefaultExprs = <<>>
    /\ uncommitted = InitialUncommitted
    /\ writes = <<>>
    /\ calls = <<>>
    /\ err = NoError
    /\ nextID = FirstFreeID + 1
    /\ \E defs \in SeqsUpTo(FKCallDefs, MaxFKs), ts \in FKTableStates,
          vb \in ValidationBehaviors, noOriginFKIndexes \in BOOLEAN :
           /\ fn = [op |-> "input", defs |-> defs, ts |-> ts, validationBehavior |-> vb,
                    st |-> [NoOriginFKIndexes |-> noOriginFKIndexes,
                            allowCrossDatabaseFKs |-> FALSE],
                    d |-> NoFK, before |-> desc, beforeBackrefs |-> <<>>,
                    err |-> NoError]
           /\ store = IF ts = "NewTable" THEN InitialStore
                      ELSE (desc.ID :> desc) @@ InitialStore

\* The resolver of the caller: NewTableDesc wraps it so that the new table's
\* name resolves to the descriptor being built.
FKResolver ==
    IF fn.ts = "NewTable" THEN fkSelfResolver(vt, desc.Name) ELSE vt

\* The caller resolves the next definition and stops at the first error.
CallResolveFK ==
    /\ pc = "helper"
    /\ fn.defs # <<>>
    /\ fn.err = NoError
    /\ LET r == ResolveFK(FKResolver, desc, Head(fn.defs), affected, fn.ts,
                          fn.validationBehavior, fn.st)
       IN  /\ desc' = r.tbl
           /\ affected' = r.backrefs
           /\ fn' = [fn EXCEPT !.op = "ResolveFK", !.defs = Tail(@), !.d = Head(fn.defs),
                               !.before = desc, !.beforeBackrefs = affected,
                               !.err = r.err]
    /\ UNCHANGED <<pc, settings, n, columnDefaultExprs, store, uncommitted, writes,
                   calls, err, nextID>>

NextFK == CallResolveFK

SpecFK == InitFK /\ [][NextFK]_vars

-----------------------------------------------------------------------------
(* startExec for CREATE TABLE AS: the descriptor is created, and in an     *)
(* explicit transaction the table is filled synchronously, the last part   *)
(* of startExec.  `pc` is the position in startExec, `calls` the calls     *)
(* made so far, `err` what was returned, and `fn` holds the transaction's  *)
(* kind and stepping state, the source plan and the table writer.          *)

MaxRows == 2

FillPositions == {"ctas", "makeInserter", "twInit", "synthRowID", "check", "next", "row"}

\* Variant: the fill leaves the stepping mode as it finds it.
SteppingForFill_Previous(prevMode) == prevMode

\* The mode the fill configures for its duration.
SteppingForFill(prevMode) == "SteppingEnabled"

\* kv.Txn.ConfigureStepping: enabling stepping from the disabled mode takes
\* a read snapshot at the current write sequence number; the writes after
\* it are read only after a Step.
ConfigureStepping(txn, mode) ==
    [txn EXCEPT !.mode = mode,
                !.readSeq = IF txn.mode = "SteppingDisabled" /\ mode = "SteppingEnabled"
                            THEN txn.writeSeq ELSE @]

\* The writes of the fill a read of the transaction would see now.
VisibleOwnWrites(txn) ==
    IF txn.mode = "SteppingEnabled"
    THEN IF txn.readSeq > txn.entrySeq THEN txn.readSeq - txn.entrySeq ELSE 0
    ELSE txn.writeSeq - txn.entrySeq

\* cancelChecker.Check: an error once the query was cancelled.
CancelCheck(cancelled) == IF cancelled THEN "QueryCanceled" ELSE NoError

\* Variant: after a row the loop pulls the next one without the check.
AfterRow_SkipCheck == "next"

\* The loop starts every iteration at the cancellation check.
AfterRow == "check"

\* Variant: the table is filled synchronously in every transaction.
FillsSynchronously_Always(txnImplicit) == TRUE

\* if n.n.As() && !params.p.ExtendedEvalContext().TxnImplicit
FillsSynchronously(txnImplicit) == ~txnImplicit

\* CREATE TABLE c AS ... in an implicit or explicit transaction, with
\* stepping disabled or enabled and a read snapshot at or before the
\* descriptor writes.
InitCTAS ==
    /\ pc = "createAs"
    /\ settings = <<>>
    /\ n = [Statement("c", FALSE, <<>>, NoInterleave, FALSE, "") EXCEPT !.As = TRUE]
    /\ desc = NoDesc
    /\ affected = <<>>
    /\ columnDefaultExprs = <<>>
    /\ store = InitialStore
    /\ uncommitted = InitialUncommitted
    /\ writes = <<>>
    /\ calls = <<>>
    /\ err = NoError
    /\ nextID = FirstFreeID + 1
    /\ \E mode \in {"SteppingDisabled", "SteppingEnabled"}, readSeq \in 0..1,
          rows \in 0..MaxRows, synthRowID \in BOOLEAN, txnImplicit \in BOOLEAN :
           fn = [op |-> "fill", txnImplicit |-> txnImplicit, rows |-> rows,
                 mode |-> mode, entryMode |-> mode, prevMode |-> "",
                 readSeq |-> readSeq, writeSeq |-> 1, entrySeq |-> 1,
                 source |-> rows, inserted |-> 0, seen |-> 0,
                 cancelledAt |-> -1, finalized |-> FALSE, closed |-> FALSE,
                 synthRowID |-> synthRowID]

\* Variant: the table writer is closed and not put back.
DeferredClose_NoPut(twOpen) == IF twOpen THEN <<"tw.close">> ELSE <<>>

\* The deferred function registered once the table writer is taken from the
\* pool: it closes the writer and puts it back.
DeferredClose(twOpen) ==
    IF twOpen THEN <<"tw.close", "tableInserterPool.Put">> ELSE <<>>

\* A return of the fill: the deferred calls run, the table writer's if the
\* writer was taken from the pool, then the restore of the stepping mode.
ReturnFill(txn, log, code, twOpen) ==
    /\ pc' = "returned"
    /\ err' = code
    /\ calls' = log \o DeferredClose(twOpen) \o <<"ConfigureStepping">>
    /\ fn' = ConfigureStepping([txn EXCEPT !.closed = twOpen], txn.prevMode)

StayInFill(at, txn, log) ==
    /\ pc' = at
    /\ fn' = txn
    /\ calls' = log
    /\ UNCHANGED err

FillFrame ==
    UNCHANGED <<settings, n, desc, affected, columnDefaultExprs, store, uncommitted,
                writes, nextID>>

\* newTableDescIfAs, the state ADD of the table of an implicit transaction
\* and createDescriptorWithID.  The table has the columns of the source
\* plan and no references, so the calls from there to the event log record
\* write nothing more.
CreateAs ==
    /\ pc = "createAs"
    /\ err = NoError
    /\ \E ok \in BOOLEAN :
        LET built == [ExistingTable(FirstFreeID, n.Table) EXCEPT
                         !.State = IF fn.txnImplicit THEN "ADD" ELSE @]
        IN  /\ desc' = built
            /\ calls' = Append(calls, "createDescriptorWithID")
            /\ IF ok
               THEN /\ store' = (built.ID :> built) @@ store
                    /\ uncommitted' = (built.ID :> TRUE) @@ uncommitted
                    /\ writes' = Append(writes, Write("createDescriptorWithID", built))
                    /\ pc' = "ctas"
                    /\ UNCHANGED err
               ELSE /\ err' = "KVError"
                    /\ UNCHANGED <<pc, store, uncommitted, writes>>
    /\ UNCHANGED <<settings, n, affected, columnDefaultExprs, nextID, fn>>

\* In an implicit transaction startExec returns without the fill.
SkipFill ==
    /\ pc = "ctas"
    /\ ~FillsSynchronously(fn.txnImplicit)
    /\ pc' = "done"
    /\ UNCHANGED <<calls, err, fn>>
    /\ FillFrame

EnterFill ==
    /\ pc = "ctas"
    /\ FillsSynchronously(fn.txnImplicit)
    /\ StayInFill("makeInserter",
                  ConfigureStepping([fn EXCEPT !.prevMode = fn.mode],
                                    SteppingForFill(fn.mode)),
                  Append(calls, "ConfigureStepping"))
    /\ FillFrame

MakeInserter ==
    /\ pc = "makeInserter"
    /\ \E fail \in BOOLEAN :
           IF fail THEN ReturnFill(fn, Append(calls, "row.MakeInserter"), "KVError", FALSE)
           ELSE StayInFill("twInit", fn, Append(calls, "row.MakeInserter"))
    /\ FillFrame

\* The table writer is taken from the pool, its close is deferred, and it
\* is initialized.
TableWriterInit ==
    /\ pc = "twInit"
    /\ \E fail \in BOOLEAN :
           IF fail THEN ReturnFill(fn, calls \o <<"tableInserterPool.Get", "tw.init">>,
                                   "KVError", TRUE)
           ELSE StayInFill(IF fn.synthRowID THEN "synthRowID" ELSE "check",
                           fn, calls \o <<"tableInserterPool.Get", "tw.init">>)
    /\ FillFrame

PrepareRowID ==
    /\ pc = "synthRowID"
    /\ \E fail \in BOOLEAN :
           IF fail THEN ReturnFill(fn, Append(calls, "analyzeExpr"), "Syntax", TRUE)
           ELSE StayInFill("check", fn, Append(calls, "analyzeExpr"))
    /\ FillFrame

\* The query is cancelled from outside while the fill runs.
CancelQuery ==
    /\ pc \in FillPositions
    /\ fn.cancelledAt < 0
    /\ fn' = [fn EXCEPT !.cancelledAt = Len(calls)]
    /\ UNCHANGED <<pc, calls, err>>
    /\ FillFrame

CheckCancel ==
    /\ pc = "check"
    /\ IF CancelCheck(fn.cancelledAt >= 0) # NoError
       THEN ReturnFill(fn, Append(calls, "cancelChecker.Check"),
                       CancelCheck(fn.cancelledAt >= 0), TRUE)
       ELSE StayInFill("next", fn, Append(calls, "cancelChecker.Check"))
    /\ FillFrame

\* sourcePlan.Next: a row, an error, or the end of the rows, after which the
\* table writer is finalized.
SourceNext ==
    /\ pc = "next"
    /\ \E fail \in BOOLEAN :
           IF fail THEN ReturnFill(fn, Append(calls, "sourcePlan.Next"), "KVError", TRUE)
           ELSE IF fn.source = 0
           THEN \E failFinalize \in BOOLEAN :
                    ReturnFill([fn EXCEPT !.finalized = ~failFinalize],
                               calls \o <<"sourcePlan.Next", "tw.finalize">>,
                               IF failFinalize THEN "KVError" ELSE NoError, TRUE)
           ELSE StayInFill("row",
                           [fn EXCEPT !.source = @ - 1,
                                      !.seen = IF VisibleOwnWrites(fn) > @
                                               THEN VisibleOwnWrites(fn) ELSE @],
                           Append(calls, "sourcePlan.Next"))
    /\ FillFrame

InsertRow ==
    /\ pc = "row"
    /\ \E fail \in BOOLEAN :
           IF fail THEN ReturnFill(fn, Append(calls, "tw.row"), "KVError", TRUE)
           ELSE StayInFill(AfterRow,
                           [fn EXCEPT !.writeSeq = @ + 1, !.inserted = @ + 1],
                           Append(calls, "tw.row"))
    /\ FillFrame

NextCTAS ==
    \/ CreateAs
    \/ SkipFill
    \/ EnterFill
    \/ MakeInserter
    \/ TableWriterInit
    \/ PrepareRowID
    \/ CancelQuery
    \/ CheckCancel
    \/ SourceNext
    \/ InsertRow

SpecCTAS == InitCTAS /\ [][NextCTAS]_vars

-----------------------------------------------------------------------------
(* finalizeInterleave on its own: a child table c written by the           *)
(* transaction, its parent p, which is a root table or interleaved in g,   *)
(* and one interleaved index of c.  `fn` holds the call and the state      *)
(* before it.                                                              *)

OneColumnA == <<[Name |-> "a", Type |-> "INT", Direction |-> "ASC"]>>

\* The table with the children already interleaved in its primary index.
WithInterleavedBy(tbl, backrefs) == [tbl EXCEPT !.PrimaryIndex.InterleavedBy = backrefs]

\* g is the root of p when p is interleaved.
GrandparentTable(parentInterleaved) ==
    WithInterleavedBy(KeyedTable(51, "g", OneColumnA),
                      IF parentInterleaved THEN <<[Table |-> 52, Index |-> 1]>> ELSE <<>>)

\* The child's chain when its primary index is interleaved in p.
ChainThrough(parent) ==
    Append(parent.PrimaryIndex.Interleave,
           [TableID |-> parent.ID, IndexID |-> parent.PrimaryIndex.ID, SharedPrefixLen |-> 1])

\* c with its primary index interleaved in p, with a secondary index
\* interleaved in its own primary index, or both.
ChildTable(shape, parent, inParent, inSelf, state) ==
    LET keyed == KeyedTable(FirstFreeID, "c", shape)
        withIndex == AllocateIDs(AddIndex(keyed,
                         IndexDescriptor("c_idx", FALSE, <<shape[1].Name>>, <<"ASC">>),
                         FALSE))
        own == <<[TableID |-> FirstFreeID, IndexID |-> 1, SharedPrefixLen |-> 1]>>
        t1 == IF inSelf THEN [withIndex EXCEPT !.Indexes[1].Interleave = own] ELSE keyed
    IN  [t1 EXCEPT !.State = state,
                   !.PrimaryIndex.Interleave = IF inParent THEN ChainThrough(parent) ELSE @]

InterleavedIndexIDs(tbl) ==
    {i.ID : i \in {x \in Range(AllNonDropIndexes(tbl)) : x.Interleave # <<>>}}

InitFinalize ==
    /\ pc = "helper"
    /\ settings = <<>>
    /\ n = Statement("c", FALSE, <<>>, NoInterleave, FALSE, "")
    /\ affected = <<>>
    /\ columnDefaultExprs = <<>>
    /\ uncommitted = FirstFreeID :> TRUE
    /\ writes = <<>>
    /\ calls = <<>>
    /\ err = NoError
    /\ nextID = FirstFreeID + 1
    /\ fn = [op |-> "input"]
    /\ \E shape \in KeyShapes, parentInterleaved \in BOOLEAN, sibling \in BOOLEAN,
          inParent \in BOOLEAN, inSelf \in BOOLEAN, state \in {"ADD", "PUBLIC"} :
           LET parent == WithInterleavedBy(
                             ParentTable(OneColumnA,
                                 IF parentInterleaved
                                 THEN <<[TableID |-> 51, IndexID |-> 1,
                                         SharedPrefixLen |-> 1]>>
                                 ELSE <<>>),
                             IF sibling THEN <<[Table |-> 55, Index |-> 1]>> ELSE <<>>)
           IN  /\ inParent \/ inSelf
               /\ desc = ChildTable(shape, parent, inParent, inSelf, state)
               /\ store = (51 :> GrandparentTable(parentInterleaved)) @@ (52 :> parent)
                              @@ (FirstFreeID :> desc)

IndexByID(tbl, id) == CHOOSE i \in Range(AllNonDropIndexes(tbl)) : i.ID = id

\* startExec calls finalizeInterleave for an interleaved index of the table.
CallFinalizeInterleave ==
    /\ pc = "helper"
    /\ fn.op = "input"
    /\ \E id \in InterleavedIndexIDs(desc), failAt \in 0..2 :
           LET st == finalizeInterleave([desc |-> desc, store |-> store,
                                         uncommitted |-> uncommitted, writes |-> writes,
                                         calls |-> calls, err |-> NoError],
                                        IndexByID(desc, id), failAt)
           IN  /\ desc' = st.desc
               /\ store' = st.store
               /\ uncommitted' = st.uncommitted
               /\ writes' = st.writes
               /\ calls' = st.calls
               /\ fn' = [op |-> "finalizeInterleave", index |-> id, before |-> desc,
                         storeBefore |-> store, err |-> st.err]
    /\ UNCHANGED <<pc, settings, n, affected, columnDefaultExprs, err, nextID>>

NextFinalize == CallFinalizeInterleave

SpecFinalize == InitFinalize /\ [][NextFinalize]_vars

-----------------------------------------------------------------------------
(* Chains of interleaved tables: a root table, and tables created one      *)
(* after the other, each interleaved by addInterleave in a table created   *)
(* before it.  `store` holds the tables and `fn` the last call.            *)

MaxKeyCols == 3

MaxChain == 4

KeyColumnNames == <<"a", "b", "c", "d", "e", "f">>

\* A primary key of k INT columns a, b, ..., ascending.
KeyOf(k) == [i \in 1..k |-> [Name |-> KeyColumnNames[i], Type |-> "INT", Direction |-> "ASC"]]

TableName(id) == "t" \o ToString(id)

InitChain ==
    /\ pc = "helper"
    /\ settings = <<>>
    /\ n = Statement("c", FALSE, <<>>, NoInterleave, FALSE, "")
    /\ desc = NoDesc
    /\ affected = <<>>
    /\ columnDefaultExprs = <<>>
    /\ \E k \in 1..MaxKeyCols : store = 51 :> KeyedTable(51, TableName(51), KeyOf(k))
    /\ uncommitted = <<>>
    /\ writes = <<>>
    /\ calls = <<>>
    /\ err = NoError
    /\ nextID = 52
    /\ fn = [op |-> "input"]

\* A table with a key of k columns is created and interleaved in `parent`
\* with one field per column of the parent's key; it joins the catalog if
\* addInterleave accepts it.
CreateInterleaved ==
    /\ pc = "helper"
    /\ Cardinality(DOMAIN store) < MaxChain
    /\ \E parent \in DOMAIN store, k \in 1..MaxKeyCols :
           LET child == KeyedTable(nextID, TableName(nextID), KeyOf(k))
               r == addInterleave(vt, child, child.PrimaryIndex,
                                  InterleaveDef(TableName(parent),
                                      SubSeq(KeyColumnNames, 1,
                                             Len(store[parent].PrimaryIndex.ColumnIDs))))
           IN  /\ desc' = [r.tbl EXCEPT !.PrimaryIndex = r.index]
               /\ fn' = [op |-> "addInterleave", parent |-> parent, err |-> r.err]
               /\ IF r.err = NoError
                  THEN /\ store' = (nextID :> desc') @@ store
                       /\ nextID' = nextID + 1
                  ELSE UNCHANGED <<store, nextID>>
    /\ UNCHANGED <<pc, settings, n, affected, columnDefaultExprs, uncommitted, writes,
                   calls, err>>

NextChain == CreateInterleaved

SpecChain == InitChain /\ [][NextChain]_vars

-----------------------------------------------------------------------------
(* Properties.                                                             *)

\* The steps of startExec inside newTableDesc, and those after it returned
\* a descriptor.
BuildPositions == {"newTableDesc", "columns", "indexes", "allocate", "interleave",
                   "sequences", "constraints", "finalize"}
PostBuild == {"built", "create", "affected", "validate", "done"}

\* NewTableDesc has initialized the descriptor.
DescInitialized == "OutboundFKs" \in DOMAIN desc

\* newTableDesc returned the descriptor.
DescReturned == pc \in PostBuild /\ DescInitialized

Occurrences(s, x) == Cardinality({k \in 1..Len(s) : s[k] = x})

\* The in-memory instance of the table a foreign key of the new table references.
FKTarget(f) ==
    IF f.ReferencedTableID = desc.ID THEN desc ELSE affected[f.ReferencedTableID]

\* C1: every foreign key resolved for the new table is exactly once in the
\* new table's OutboundFKs and exactly once, as the identical record (column
\* IDs, name, actions, match), in the InboundFKs of the table it references;
\* no other inbound entry names the new table as origin, and a successful
\* build has one outbound entry per FOREIGN KEY definition.
C1_FKBidirectional ==
    DescInitialized =>
        /\ \A f \in Range(desc.OutboundFKs) :
              /\ Occurrences(desc.OutboundFKs, f) = 1
              /\ f.OriginTableID = desc.ID
              /\ f.ReferencedTableID = desc.ID \/ f.ReferencedTableID \in DOMAIN affected
              /\ Occurrences(FKTarget(f).InboundFKs, f) = 1
        /\ \A t \in {desc} \cup {affected[id] : id \in DOMAIN affected} :
              \A g \in Range(t.InboundFKs) :
                  g.OriginTableID = desc.ID =>
                      g.ReferencedTableID = t.ID /\ g \in Range(desc.OutboundFKs)
        /\ pc \in PostBuild =>
              Len(desc.OutboundFKs) = Cardinality(DefsOfKind(n.Defs, "fk"))

\* A finished statement with two foreign keys, to the committed table and to
\* the table of the same transaction.
C1_Witness ==
    /\ pc = "done" /\ DescInitialized
    /\ Len(desc.OutboundFKs) = 2
    /\ {f.ReferencedTableID : f \in Range(desc.OutboundFKs)} = {52, 53}

SelfFKs == {f \in Range(desc.OutboundFKs) : f.ReferencedTableID = desc.ID}

OnlySelfReferences ==
    /\ n.Interleave = NoInterleave
    /\ \A i \in DefsOfKind(n.Defs, "fk") : n.Defs[i].Table = n.Table

\* C2: a foreign key of the new table to itself puts the outbound and the
\* inbound entry on the one descriptor under construction, adds no entry for
\* the table to the backrefs map, and does not move the table to ADD.
C2_SelfReferenceAliased ==
    DescInitialized =>
        /\ desc.ID \notin DOMAIN affected
        /\ \A f \in SelfFKs : Occurrences(desc.InboundFKs, f) = 1
        /\ \A g \in Range(desc.InboundFKs) : g.OriginTableID = desc.ID /\ g \in SelfFKs
        /\ OnlySelfReferences => desc.State = "PUBLIC"

C2_Witness ==
    /\ pc = "done" /\ DescInitialized
    /\ SelfFKs # {}
    /\ OnlySelfReferences
    /\ desc.State = "PUBLIC"

\* The tables and sequences the new table points to.
ForwardReferences(tbl) ==
    {f.ReferencedTableID : f \in Range(tbl.OutboundFKs)}
        \cup UNION {{a.TableID : a \in Range(i.Interleave)} :
                       i \in Range(AllNonDropIndexes(tbl))}
        \cup UNION {c.UsesSequenceIds : c \in Range(tbl.Columns)}

CreatedInTransaction(id) == id = desc.ID \/ IsNewInTxn(id)

BuildFailed == err # NoError /\ pc \in BuildPositions

\* C4 as stated: when the build fails no descriptor has been written.
C4_NothingWrittenOnBuildFailure == BuildFailed => writes = <<>>

\* A FOREIGN KEY ... ON DELETE SET NULL over a column declared NOT NULL or
\* PRIMARY KEY.
SetNullOverNotNull ==
    \E i \in DefsOfKind(n.Defs, "fk"), j \in DefsOfKind(n.Defs, "col") :
        /\ n.Defs[i].Delete = "SET NULL"
        /\ n.Defs[j].Name \in Range(n.Defs[i].FromCols)
        /\ n.Defs[j].Nullability = "NotNull" \/ n.Defs[j].PrimaryKey.IsPrimaryKey

\* C4: when the build fails startExec has written neither the new table nor
\* a descriptor of `affected`; the only writes before the failure are the
\* sequences created for SERIAL columns.  A statement with SET NULL over a
\* NOT NULL column never gets a descriptor, and fails with InvalidForeignKey
\* when it gets as far as that check.
C4_OnlySequencesBeforeBuildFailure ==
    /\ BuildFailed =>
          \A w \in Range(writes) :
              /\ w.Op = "createSequence"
              /\ w.ID # desc.ID
              /\ w.ID \notin DOMAIN affected \/ affected[w.ID].IsSequence
    /\ SetNullOverNotNull => pc \notin PostBuild \cup {"finalize"}
    /\ (BuildFailed /\ err = "InvalidForeignKey") => pc = "constraints"

C4_Witness ==
    /\ BuildFailed
    /\ SetNullOverNotNull
    /\ err = "InvalidForeignKey"
    /\ writes # <<>>

\* The position of the first AllocateIDs in the calls, past the end if none.
FirstAllocateIDs ==
    IF \E k \in 1..Len(calls) : calls[k] = "AllocateIDs"
    THEN CHOOSE k \in 1..Len(calls) :
             calls[k] = "AllocateIDs" /\ \A j \in 1..(k - 1) : calls[j] # "AllocateIDs"
    ELSE Len(calls) + 1

ConstraintCalls == {"ckBuilder.Build", "ResolveFK"}

\* The order of the calls of NewTableDesc, for the calls in `late` that must
\* follow the first AllocateIDs.
CallOrder(late) ==
    /\ \A k \in 1..Len(calls) : calls[k] \in late => k > FirstAllocateIDs
    /\ \A k, j \in 1..Len(calls) :
          (calls[k] = "computedColValidator.Validate" /\ calls[j] \in ConstraintCalls)
              => j < k
    /\ \A k \in 1..Len(calls) :
          calls[k] = "ValidateTableLocalityConfig" =>
              \E j \in (FirstAllocateIDs + 1)..(k - 1) :
                  /\ calls[j] = "AllocateIDs"
                  /\ \A i \in 1..Len(calls) :
                        calls[i] \in late \cup {"computedColValidator.Validate"} => i < j
    /\ DescReturned =>
          /\ Occurrences(calls, "AllocateIDs") = 2
          /\ \A i \in 1..Len(calls) :
                calls[i] \in late \cup {"computedColValidator.Validate"} =>
                    \E j \in (i + 1)..Len(calls) : calls[j] = "AllocateIDs"

\* C5 as stated: interleave, every partitioning, sequence dependencies, CHECK
\* construction and foreign keys run after the first AllocateIDs.
C5_NothingBeforeFirstAllocateIDs ==
    CallOrder({"addInterleave", "CreatePartitioning:index", "CreatePartitioning:primary",
               "maybeAddSequenceDependencies"} \cup ConstraintCalls)

\* C5: interleave, the partitioning of the primary index, sequence
\* dependencies, CHECK construction and foreign keys run after the first
\* AllocateIDs; computed columns are validated after every CHECK and foreign
\* key; the second AllocateIDs follows all of them and precedes the locality
\* configuration.  The partitioning of a secondary index is not bound by it.
C5_CallOrder ==
    CallOrder({"addInterleave", "CreatePartitioning:primary",
               "maybeAddSequenceDependencies"} \cup ConstraintCalls)

C5_Witness ==
    /\ pc = "done"
    /\ {"CreatePartitioning:index", "CreatePartitioning:primary", "ResolveFK",
        "computedColValidator.Validate", "ValidateTableLocalityConfig"}
           \subseteq Range(calls)
    /\ calls[1] = "CreatePartitioning:index"

\* The columns of a table's primary index: name, type and direction.
KeyColumnsOf(tbl) ==
    [i \in 1..Len(tbl.PrimaryIndex.ColumnNames) |->
        [Name |-> tbl.PrimaryIndex.ColumnNames[i],
         Type |-> FindColumnByName(tbl, tbl.PrimaryIndex.ColumnNames[i]).Type,
         Direction |-> tbl.PrimaryIndex.ColumnDirections[i]]]

\* addInterleave was called with a parent that resolves and no drop shorthand.
InterleaveApplied ==
    /\ fn.op = "addInterleave"
    /\ fn.interleave.Parent = "p"
    /\ fn.interleave.DropBehavior = "DropDefault"

\* The fields are, by name, type and direction, an ordered prefix of the
\* parent's primary index columns and of the child index columns.
FieldsArePrefixOfBoth ==
    LET f == fn.interleave.Fields
        pk == KeyColumnsOf(store[52])
        ck == KeyColumnsOf(fn.before)
    IN  /\ Len(f) <= Len(pk)
        /\ Len(f) <= Len(ck)
        /\ \A i \in 1..Len(f) :
              /\ f[i] = pk[i].Name
              /\ f[i] = ck[i].Name
              /\ pk[i].Type = ck[i].Type
              /\ pk[i].Direction = ck[i].Direction

\* C6 as stated: addInterleave succeeds iff the fields are a prefix of both
\* keys, and otherwise fails with InvalidSchemaDefinition.
C6_InterleavePrefixLaw ==
    InterleaveApplied =>
        /\ fn.err = NoError <=> FieldsArePrefixOfBoth
        /\ fn.err \in {NoError, "InvalidSchemaDefinition"}

\* There is one field per column of the parent's primary index, the fields
\* name the leading columns of the child index, and those columns have the
\* types and directions of the parent's.
FieldsCoverParentKey ==
    LET f == fn.interleave.Fields
        pk == KeyColumnsOf(store[52])
        ck == KeyColumnsOf(fn.before)
    IN  /\ Len(f) = Len(pk)
        /\ Len(f) <= Len(ck)
        /\ \A i \in 1..Len(f) :
              /\ f[i] = ck[i].Name
              /\ pk[i].Type = ck[i].Type
              /\ pk[i].Direction = ck[i].Direction

\* C6: addInterleave succeeds iff there is exactly one field per column of
\* the parent's whole primary index, the fields are the names of the leading
\* columns of the child index, and these columns match the parent's in type
\* and direction (their names need not be the parent's); every such mismatch
\* fails with InvalidSchemaDefinition.  On success the table is in ADD and
\* the index has the parent appended to the parent's ancestors.
C6_InterleaveLaw ==
    InterleaveApplied =>
        /\ fn.err = NoError <=> FieldsCoverParentKey
        /\ fn.err \in {NoError, "InvalidSchemaDefinition"}
        /\ fn.err = NoError =>
              /\ desc.State = "ADD"
              /\ Len(desc.PrimaryIndex.Interleave) = Len(store[52].PrimaryIndex.Interleave) + 1
              /\ desc.PrimaryIndex.Interleave[Len(desc.PrimaryIndex.Interleave)].TableID = 52
        /\ fn.err # NoError => desc = fn.before

\* A success although the field is not the name of the parent's key column.
C6_Witness ==
    /\ InterleaveApplied
    /\ fn.err = NoError
    /\ fn.interleave.Fields # store[52].PrimaryIndex.ColumnNames

\* C7: in a descriptor newTableDesc returned no two columns share an ID, and
\* every index has one column ID per column name, each the ID of a column of
\* the descriptor.
C7_ColumnIDsUniqueAndResolved ==
    DescReturned =>
        /\ \A i, j \in 1..Len(desc.Columns) :
              i # j => desc.Columns[i].ID # desc.Columns[j].ID
        /\ \A c \in Range(desc.Columns) : c.ID > 0
        /\ \A i \in Range(AllNonDropIndexes(desc)) :
              /\ Len(i.ColumnIDs) = Len(i.ColumnNames)
              /\ \A k \in 1..Len(i.ColumnIDs) :
                    /\ HasColumnID(desc, i.ColumnIDs[k])
                    /\ FindColumnByID(desc, i.ColumnIDs[k]).Name = i.ColumnNames[k]

\* A returned descriptor with a shard column, two declared columns, a
\* secondary index and the index added for a foreign key.
C7_Witness ==
    /\ DescReturned
    /\ Len(desc.Columns) >= 3
    /\ Len(desc.Indexes) >= 2

\* CREATE TABLE c (a INT REFERENCES p (a)), p committed before.
ScenarioB ==
    /\ n.Table = "c"
    /\ n.Defs = <<ColA("SilentNull", NotPrimaryKey), FK("", "a", "p", <<"a">>, "NO ACTION")>>
    /\ n.Interleave = NoInterleave /\ ~n.PartitionBy /\ n.Locality = ""

\* The indexes of the new table on column a alone that are not its primary key.
IndexesOnA == {i \in Range(desc.Indexes) : i.ColumnNames = <<"a">>}

\* Scenario B with the validity and the supporting index given.
ScenarioBOutcome(validities, indexOnA) ==
    (ScenarioB /\ pc = "done") =>
        /\ Len(desc.OutboundFKs) = 1
        /\ Len(store[52].InboundFKs) = 1
        /\ desc.OutboundFKs[1].Validity \in validities
        /\ store[52].InboundFKs[1].Validity \in validities
        /\ store[52].InboundFKs[1] = desc.OutboundFKs[1]
        /\ indexOnA

ShardedDefs == {i \in DefsOfKind(n.Defs, "col") : n.Defs[i].PrimaryKey.Sharded}

\* C9: a column declared PRIMARY KEY USING HASH WITH BUCKET_COUNT = k gives
\* the table exactly one column beyond the declared ones, hidden, NOT NULL,
\* computed, INT4 and named after the column and k, and exactly one CHECK,
\* hidden, that admits for this column exactly the integers 0..k-1.
C9_ShardColumnAndCheck ==
    (DescReturned /\ ShardedDefs # {}) =>
        LET d == n.Defs[CHOOSE i \in ShardedDefs : TRUE]
            k == d.PrimaryKey.ShardBuckets
            name == "crdb_internal_" \o d.Name \o "_shard_" \o ToString(k)
            declared == {n.Defs[i].Name : i \in DefsOfKind(n.Defs, "col")}
            extra == {c \in Range(desc.Columns) : c.Name \notin declared}
            checkDefs == {n.Defs[i] : i \in DefsOfKind(n.Defs, "check")}
        IN  /\ Cardinality(extra) = 1
            /\ Len(desc.Columns) = Cardinality(declared) + 1
            /\ \A c \in extra :
                  /\ c.Hidden /\ ~c.Nullable /\ c.ComputeExpr # ""
                  /\ c.Type = "INT4" /\ c.Name = name
                  /\ \A ck \in Range(desc.Checks) : ck.ColumnIDs = {c.ID}
            /\ Len(desc.Checks) = 1
            /\ desc.Checks[1].Hidden
            /\ Cardinality(checkDefs) = 1
            /\ \A cd \in checkDefs :
                  /\ cd.Expr.Operator = "IN"
                  /\ cd.Expr.Left = ColumnItem(name)
                  /\ Len(cd.Expr.Right.Exprs) = k
                  /\ {e.Value : e \in Range(cd.Expr.Right.Exprs)} = 0..(k - 1)
                  /\ desc.Checks[1].Expr = Serialize(cd.Expr)

C9_Witness ==
    /\ pc = "done" /\ DescInitialized
    /\ ShardedDefs # {}
    /\ Len(desc.Checks) = 1
    /\ \E c \in Range(desc.Columns) : c.Name = "crdb_internal_a_shard_4"

\* The text of one term, and of the sum of the terms in the order of the list.
ShardTermText(colName) == "fnv32(COALESCE(" \o colName \o "::STRING, '':::STRING))"

RECURSIVE ShardSumText(_)
ShardSumText(colNames) ==
    IF Len(colNames) = 1 THEN ShardTermText(colNames[1])
    ELSE ShardTermText(colNames[1]) \o " + " \o
         (IF Len(colNames) = 2 THEN ShardSumText(Tail(colNames))
          ELSE "(" \o ShardSumText(Tail(colNames)) \o ")")

\* C10: the expression makeHashShardComputeExpr returns is a function of the
\* column list and the bucket count alone: mod of the sum of
\* fnv32(COALESCE(col::STRING, '')), one term per column in the order of the
\* list, and the bucket count.
C10_HashShardExprForm ==
    fn.op = "makeHashShardComputeExpr" =>
        fn.out = "mod(" \o ShardSumText(fn.colNames) \o ", "
                        \o ToString(fn.buckets) \o ":::INT8)"

C10_Witness ==
    /\ fn.op = "makeHashShardComputeExpr"
    /\ fn.colNames = <<"a", "b">>
    /\ fn.buckets = 4
    /\ fn.out = "mod(fnv32(COALESCE(a::STRING, '':::STRING)) + fnv32(COALESCE(b::STRING, '':::STRING)), 4:::INT8)"

\* startExec has gone through getTableCreateParams.
Started == pc # "start" \/ err # NoError

\* startExec returned nil at the IF NOT EXISTS shortcut.
NoOp == pc = "done" /\ ~DescInitialized

\* The name of the statement is the name of a relation in its schema.
NameTaken == LookupObjectID(InitialStore, n)

\* startExec returned at getTableCreateParams, with or without an error.
ReturnedAtResolution == NoOp \/ (pc = "start" /\ err # NoError /\ err # "KVError")

\* The setting was read and had this value.
SettingIs(name, value) == name \in DOMAIN settings /\ settings[name] = value

\* C11: with the name taken by a relation, IF NOT EXISTS makes startExec
\* return nil without generating a descriptor ID or writing a descriptor, and
\* without IF NOT EXISTS the already-exists error is returned; the type-alias
\* collision, disabled temporary tables and the missing CREATE privilege are
\* returned whether or not IF NOT EXISTS is given.
C11_IfNotExistsNoOp ==
    /\ NoOp => n.IfNotExists /\ NameTaken /\ err = NoError
    /\ ReturnedAtResolution =>
          /\ nextID = FirstFreeID /\ writes = <<>> /\ desc = NoDesc
          /\ store = InitialStore /\ affected = <<>>
          /\ "GenerateUniqueDescID" \notin DOMAIN settings
    /\ (pc = "start" /\ err = "DuplicateRelation") => NameTaken /\ ~n.IfNotExists
    /\ Started =>
          IF n.Table \in PublicSchemaAliases
          THEN pc = "start" /\ err = "DuplicateObject"
          ELSE IF SettingIs("TempTablesEnabled", FALSE)
          THEN pc = "start" /\ err = "FeatureNotSupported"
          ELSE IF SettingIs("canCreateOnSchema", FALSE)
          THEN pc = "start" /\ err = "InsufficientPrivilege"
          ELSE IF NameTaken
          THEN IF n.IfNotExists THEN NoOp ELSE pc = "start" /\ err = "DuplicateRelation"
          ELSE ~ReturnedAtResolution

\* CREATE TABLE IF NOT EXISTS p returned nil at the shortcut.
C11_Witness ==
    /\ NoOp /\ n.IfNotExists /\ n.Table = "p"
    /\ nextID = FirstFreeID /\ writes = <<>>

\* The calls of startExec after newTableDesc, in the order of the code.
PostSteps == <<"createDescriptorWithID", "writeSchemaChange", "finalizeInterleave">>
                 \o ClosingCalls

StepRank(c) == CHOOSE r \in 1..Len(PostSteps) : PostSteps[r] = c

PostCalls == SelectSeq(calls, LAMBDA c : c \in Range(PostSteps))

\* The descriptor writes of startExec itself, without the sequences of
\* newTableDesc.
DescriptorWrites == SelectSeq(writes, LAMBDA w : w.Op # "createSequence")

WriteRank(w) ==
    CASE w.Op = "createDescriptorWithID" -> 1
      [] w.Op = "updateAffected" -> 2
      [] OTHER -> 3

InterleavedIndexes == {i \in Range(AllNonDropIndexes(desc)) : i.Interleave # <<>>}

\* The call startExec is at returned an error.
FailedAt(at, call) ==
    IF err # NoError /\ pc = at /\ calls # <<>> /\ calls[Len(calls)] = call THEN 1 ELSE 0

\* C12: after newTableDesc, startExec writes the new descriptor, then every
\* descriptor of `affected` exactly once, then finalizes the interleaves,
\* then installs the type back-references, validates and records the event;
\* no step is called before the steps ahead of it have succeeded, a step
\* that fails is the last call, and a statement that is done has made all of
\* them.
C12_PersistOrder ==
    LET pcalls == PostCalls
        count(c) == Occurrences(pcalls, c)
        dw == DescriptorWrites
        written == {w.ID : w \in {x \in Range(dw) : x.Op = "updateAffected"}}
    IN  /\ \A i, j \in 1..Len(pcalls) :
              i < j => StepRank(pcalls[i]) <= StepRank(pcalls[j])
        /\ \A i, j \in 1..Len(dw) : i < j => WriteRank(dw[i]) <= WriteRank(dw[j])
        /\ \A c \in Range(PostSteps) \ {"writeSchemaChange", "finalizeInterleave"} :
              count(c) <= 1
        /\ pcalls # <<>> => DescInitialized /\ pc \in PostBuild
        /\ \A k \in 1..Len(pcalls), r \in {1, 4, 5} :
              StepRank(pcalls[k]) > r => PostSteps[r] \in Range(pcalls)
        /\ \A k \in 1..Len(pcalls) :
              StepRank(pcalls[k]) >= 3 =>
                  /\ written = DOMAIN affected
                  /\ count("writeSchemaChange") = Cardinality(DOMAIN affected)
        /\ "addBackRefsFromAllTypesInTable" \in Range(pcalls) =>
              /\ count("finalizeInterleave") = Cardinality(InterleavedIndexes)
              /\ Cardinality({k \in 1..Len(dw) : dw[k].Op = "updateAncestor"})
                     = Cardinality(InterleavedIndexes)
        /\ DescInitialized =>
              /\ Cardinality({k \in 1..Len(dw) : WriteRank(dw[k]) = 1 /\ dw[k].ID = desc.ID})
                     = count("createDescriptorWithID") - FailedAt("create", "createDescriptorWithID")
              /\ \A k \in 1..Len(dw) : WriteRank(dw[k]) = 1 => dw[k].ID = desc.ID
              /\ written \subseteq DOMAIN affected
              /\ Cardinality({k \in 1..Len(dw) : dw[k].Op = "updateAffected"})
                     = Cardinality(written)
              /\ Cardinality(written)
                     = count("writeSchemaChange") - FailedAt("affected", "writeSchemaChange")
        /\ (err # NoError /\ pc \in PostBuild \ {"built"}) =>
              pcalls # <<>> /\ calls[Len(calls)] = pcalls[Len(pcalls)]
        /\ (pc = "done" /\ DescInitialized) =>
              /\ err = NoError
              /\ Len(pcalls) = 4 + Cardinality(DOMAIN affected)
                                 + Cardinality(InterleavedIndexes)
              /\ calls[Len(calls)] = "InsertEventRecord"

\* A finished statement that wrote a referenced table and an interleave
\* parent besides the new table.
C12_Witness ==
    /\ pc = "done" /\ DescInitialized
    /\ affected # <<>>
    /\ InterleavedIndexes # {}
    /\ Range(PostSteps) \subseteq Range(calls)

\* The statement has a hash-sharded index, declared on a column or as an
\* index or constraint definition, together with PARTITION BY of the table or
\* of the sharded index.
ShardedWithPartitioning ==
    \/ n.PartitionBy /\ (ShardedDefs # {} \/ ShardedIndexDefsOf(n.Defs) # {})
    \/ \E i \in ShardedIndexDefsOf(n.Defs) : n.Defs[i].PartitionBy

\* The statement has a hash-sharded primary key in an interleaved table, or a
\* hash-sharded index with an INTERLEAVE clause.
ShardedWithInterleaving ==
    \/ /\ n.Interleave # NoInterleave
       /\ \/ ShardedDefs # {}
          \/ \E i \in ShardedIndexDefsOf(n.Defs) :
                 n.Defs[i].kind = "unique" /\ n.Defs[i].PrimaryKey
    \/ \E i \in ShardedIndexDefsOf(n.Defs) : n.Defs[i].Interleave

\* Such a statement gets no descriptor, and the error of the pass that
\* rejects it has this code (hash-sharded indexes being enabled).
ShardedConflictFails(code) ==
    (ShardedWithPartitioning \/ ShardedWithInterleaving) =>
        /\ pc \notin PostBuild
        /\ (BuildFailed /\ pc \in {"columns", "indexes"}
               /\ ~SettingIs("HashShardedIndexesEnabled", FALSE)) => err = code

\* C13 as stated: a hash-sharded index combined with partitioning or with
\* interleaving fails with InvalidSchemaDefinition and no descriptor is
\* returned.
C13_ShardedConflictRejected == ShardedConflictFails("InvalidSchemaDefinition")

-----------------------------------------------------------------------------
(* ResolveFK called directly (SpecFK).                                     *)

\* The caller has made a ResolveFK call; fn.d is its definition, fn.before
\* and fn.beforeBackrefs are the origin table and the map it was given.
FKCalled == pc = "helper" /\ fn.op = "ResolveFK"

FKSucceeded == FKCalled /\ fn.err = NoError

FKMutations(tbl) == {m \in Range(tbl.Mutations) : m.Kind = "fk"}

\* The referenced table as the call found it: the instance of the map, or
\* the catalog's for a table referenced for the first time.
TargetBefore(id) ==
    IF id \in DOMAIN fn.beforeBackrefs THEN fn.beforeBackrefs[id] ELSE store[id]

SameConstraints(new, old) ==
    /\ new.OutboundFKs = old.OutboundFKs
    /\ new.InboundFKs = old.InboundFKs
    /\ FKMutations(new) = FKMutations(old)

\* The call left the constraints of the origin and of every referenced
\* table as they were.
NoConstraintAppended ==
    /\ SameConstraints(desc, fn.before)
    /\ \A id \in DOMAIN affected : SameConstraints(affected[id], TargetBefore(id))

\* An origin column of the definition that is NOT NULL (and has no default).
OriginNotNull(needsDefault) ==
    \E c \in Range(fn.d.FromCols) :
        /\ HasColumn(fn.before, c)
        /\ ~FindColumnByName(fn.before, c).Nullable
        /\ needsDefault => FindColumnByName(fn.before, c).DefaultExpr = ""

HasAction(action) == fn.d.Delete = action \/ fn.d.Update = action

SetNullCase == FKCalled /\ HasAction("SET NULL") /\ OriginNotNull(FALSE)

SetDefaultCase == FKCalled /\ HasAction("SET DEFAULT") /\ OriginNotNull(TRUE)

\* Counterexample of C14 as stated: every foreign key with SET NULL over a
\* NOT NULL origin column, or SET DEFAULT over a NOT NULL origin column
\* without default, is rejected with InvalidForeignKey and appends nothing.
C14_ActionRejectedInvalidForeignKey ==
    (SetNullCase \/ SetDefaultCase) =>
        fn.err = "InvalidForeignKey" /\ NoConstraintAppended

\* The checks ResolveFK makes before it looks at the actions pass: the
\* referenced table resolves, the referenced columns exist and match the
\* origin columns in number and type, and the constraint name is free.
ReferencedNames(target) ==
    IF fn.d.ToCols = <<>> THEN target.PrimaryIndex.ColumnNames ELSE fn.d.ToCols

ColumnsMatch(target) ==
    /\ \A c \in Range(ReferencedNames(target)) : HasColumn(target, c)
    /\ Len(ReferencedNames(target)) = Len(fn.d.FromCols)
    /\ \A i \in 1..Len(fn.d.FromCols) :
           FindColumnByName(fn.before, fn.d.FromCols[i]).Type
               = FindColumnByName(target, ReferencedNames(target)[i]).Type

ReachesActionChecks ==
    /\ OriginColumnsError(fn.before, fn.d.FromCols, {}) = NoError
    /\ Resolvable(FKResolver, fn.before, fn.d.Table)
    /\ ColumnsMatch(ResolveTable(FKResolver, fn.before, fn.d.Table))
    /\ fn.d.Name = "" \/ fn.d.Name \notin ConstraintNames(fn.before)

\* C14 (amended): a foreign key with SET NULL over a NOT NULL origin column,
\* or SET DEFAULT over a NOT NULL origin column without default, is always
\* rejected and appends no constraint to any descriptor; the error is
\* InvalidForeignKey when the definition passes the checks made before the
\* actions are looked at, and the error of the first failing check otherwise.
C14_ActionRejected ==
    (SetNullCase \/ SetDefaultCase) =>
        /\ fn.err # NoError
        /\ NoConstraintAppended
        /\ ReachesActionChecks => fn.err = "InvalidForeignKey"

\* A SET DEFAULT foreign key is rejected after an earlier foreign key of the
\* same table was resolved.
C14_Witness ==
    /\ SetDefaultCase
    /\ ~HasAction("SET NULL")
    /\ fn.err = "InvalidForeignKey"
    /\ fn.beforeBackrefs # <<>>
    /\ fn.ts = "EmptyTable"

\* The foreign keys of the origin table that reference the table `id`.
OutboundTo(id) ==
    {i \in 1..Len(desc.OutboundFKs) : desc.OutboundFKs[i].ReferencedTableID = id}

\* The origin table is never a second instance of itself in the map, and
\* every instance is recorded under its own ID.
OneInstancePerTable ==
    /\ desc.ID \notin DOMAIN affected
    /\ \A id \in DOMAIN affected : affected[id].ID = id

\* A call that referenced a table already in the map edited the instance of
\* the map: what the instance held before the call is still there.
EditsRecordedInstance ==
    \A id \in DOMAIN fn.beforeBackrefs :
        /\ id \in DOMAIN affected
        /\ Len(affected[id].InboundFKs) >= Len(fn.beforeBackrefs[id].InboundFKs)
        /\ SubSeq(affected[id].InboundFKs, 1, Len(fn.beforeBackrefs[id].InboundFKs))
               = fn.beforeBackrefs[id].InboundFKs

\* Every foreign key of the new table to another table has its entry on
\* the one instance of that table, and the instance has no others.
InboundTogether ==
    /\ \A i \in 1..Len(desc.OutboundFKs) :
           LET f == desc.OutboundFKs[i]
           IN  f.ReferencedTableID # desc.ID =>
                   /\ f.ReferencedTableID \in DOMAIN affected
                   /\ f \in Range(affected[f.ReferencedTableID].InboundFKs)
    /\ \A id \in DOMAIN affected :
           Len(affected[id].InboundFKs)
               = Len(store[id].InboundFKs) + Cardinality(OutboundTo(id))

\* C19: after any sequence of ResolveFK calls sharing one backrefs map, the
\* map holds one instance per referenced table, a later reference to a
\* recorded table edits that instance, and all the inbound entries added for
\* a table are together on it.
C19_SingleInstance ==
    FKCalled => OneInstancePerTable /\ EditsRecordedInstance /\ InboundTogether

\* Two foreign keys of a new table to p were resolved: both entries are on
\* the instance of p in the map.
C19_Witness ==
    /\ FKSucceeded
    /\ fn.ts = "NewTable"
    /\ Cardinality(OutboundTo(52)) = 2
    /\ Len(affected[52].InboundFKs) = 2

IsFKMutation(m) == m.Kind = "fk"

\* The pending foreign key mutations of a table, in the order they were queued.
FKMutationSeq(tbl) == SelectSeq(tbl.Mutations, IsFKMutation)

LastFKMutation(tbl) == FKMutationSeq(tbl)[Len(FKMutationSeq(tbl))]

ExpectedValidity ==
    IF fn.validationBehavior = "ValidationSkip" THEN "Unvalidated" ELSE "Validating"

\* The call queued one foreign key mutation, after those queued before.
OneFKMutationQueued ==
    /\ Len(FKMutationSeq(desc)) = Len(FKMutationSeq(fn.before)) + 1
    /\ SubSeq(FKMutationSeq(desc), 1, Len(FKMutationSeq(fn.before)))
           = FKMutationSeq(fn.before)
    /\ LastFKMutation(desc).Direction = "ADD"
    /\ LastFKMutation(desc).Constraint.OriginTableID = desc.ID
    /\ LastFKMutation(desc).Constraint.Validity = ExpectedValidity

\* C20: for an existing table (EmptyTable or NonEmptyTable) a successful
\* ResolveFK queues the constraint as exactly one ADD mutation on the origin
\* table, Unvalidated if validation is skipped and Validating otherwise,
\* and leaves the origin's OutboundFKs, the target's InboundFKs and the
\* origin's State as they were.
C20_ExistingTableMutation ==
    (FKSucceeded /\ fn.ts # "NewTable") =>
        /\ OneFKMutationQueued
        /\ desc.OutboundFKs = fn.before.OutboundFKs
        /\ desc.InboundFKs = fn.before.InboundFKs
        /\ \A id \in DOMAIN affected :
               affected[id].InboundFKs = TargetBefore(id).InboundFKs
        /\ desc.State = fn.before.State

\* A second foreign key was added to a non-empty table without validation.
C20_Witness ==
    /\ FKSucceeded
    /\ fn.ts = "NonEmptyTable"
    /\ fn.validationBehavior = "ValidationSkip"
    /\ Len(FKMutationSeq(desc)) = 2
    /\ DOMAIN affected # {}

-----------------------------------------------------------------------------
(* The synchronous CREATE TABLE AS fill (SpecCTAS).                        *)

InFill == pc \in FillPositions \cup {"returned"}

\* The calls the fill makes on its way out.
DeferredCalls == {"tw.close", "tableInserterPool.Put", "ConfigureStepping"}

\* Every pull of a row from the source plan comes right after a check of
\* the cancellation token.
CheckedBeforeEveryPull ==
    \A i \in 1..Len(calls) :
        calls[i] = "sourcePlan.Next" => i > 1 /\ calls[i - 1] = "cancelChecker.Check"

\* A check made after the query was cancelled is followed by nothing but
\* the deferred calls: no pull, no row, no finalize.
AbortsOnceObserved ==
    \A i \in 1..Len(calls) :
        (fn.cancelledAt >= 0 /\ i > fn.cancelledAt /\ calls[i] = "cancelChecker.Check") =>
            /\ \A k \in (i + 1)..Len(calls) : calls[k] \in DeferredCalls
            /\ pc = "returned"
            /\ err = "QueryCanceled"
            /\ ~fn.finalized

\* C15: during the synchronous fill the cancellation token is checked before
\* every row is pulled from the source plan; once cancellation is observed
\* the fill returns that error at once, inserts no further row and does not
\* finalize the table writer.
C15_CancelChecked ==
    InFill => CheckedBeforeEveryPull /\ AbortsOnceObserved

\* The fill was cancelled after it had inserted a row and while the source
\* still had one.
C15_Witness ==
    /\ pc = "returned"
    /\ err = "QueryCanceled"
    /\ fn.inserted >= 1
    /\ fn.source >= 1
    /\ ~fn.finalized

\* C16: the fill runs with stepping enabled from its first step to its
\* return, no row it wrote is visible to a pull of its source plan, and
\* when it has returned, with or without error, the transaction is back in
\* the stepping mode it was in before.
C16_SteppingScoped ==
    /\ pc \in FillPositions \ {"ctas"} => fn.mode = "SteppingEnabled"
    /\ InFill => fn.seen = 0
    /\ pc = "returned" => fn.mode = fn.entryMode

\* A fill that started with stepping disabled pulled rows after it had
\* written some, and returned an error.
C16_Witness ==
    /\ pc = "returned"
    /\ err = "KVError"
    /\ fn.entryMode = "SteppingDisabled"
    /\ fn.inserted >= 2

-----------------------------------------------------------------------------
(* finalizeInterleave.                                                     *)

IsInterleaved(tbl) == \E i \in Range(AllNonDropIndexes(tbl)) : i.Interleave # <<>>

\* The table has a foreign key to a table that was not created in the
\* transaction, so it is in state ADD for more than its interleave.
HasExternalFK(tbl) ==
    \E f \in Range(tbl.OutboundFKs) : ~CreatedInTransaction(f.ReferencedTableID)

InterleavesFinalized == pc \in {"validate", "done"} /\ DescInitialized

\* C18: finalizeInterleave makes the child PUBLIC only if it was in state
\* ADD for the interleave alone; a child that also has a foreign key to a
\* table not created in the transaction stays in state ADD.
C18_FlipOnlyForInterleave ==
    (InterleavesFinalized /\ IsInterleaved(desc) /\ HasExternalFK(desc)) =>
        desc.State = "ADD"

(* finalizeInterleave called directly (SpecFinalize).                      *)

FinalizeCalled == pc = "helper" /\ fn.op = "finalizeInterleave"

\* The chain of the index the call was made for, and its last entry.
FinalizedChain == IndexByID(fn.before, fn.index).Interleave

FinalizedLast == FinalizedChain[Len(FinalizedChain)]

\* A table as the call found it and as it left it; the child is the
\* descriptor in memory.
FinalizeBefore(id) == IF id = fn.before.ID THEN fn.before ELSE fn.storeBefore[id]

FinalizeAfter(id) == IF id = desc.ID THEN desc ELSE store[id]

\* The writes of the call, by operation and descriptor.
FinalizeWrites == [i \in 1..Len(writes) |-> <<writes[i].Op, writes[i].ID>>]

IsPrefix(s, t) == Len(s) <= Len(t) /\ SubSeq(t, 1, Len(s)) = s

\* After a call without error the index named by the last entry of the
\* chain has the back-reference appended, and every other index of every
\* table has the back-references it had.
BackrefOnLastOnly ==
    \A id \in DOMAIN fn.storeBefore :
        \A i \in Range(AllNonDropIndexes(FinalizeBefore(id))) :
            IndexByID(FinalizeAfter(id), i.ID).InterleavedBy =
                IF id = FinalizedLast.TableID /\ i.ID = FinalizedLast.IndexID
                THEN Append(i.InterleavedBy, [Table |-> desc.ID, Index |-> fn.index])
                ELSE i.InterleavedBy

\* The ancestor is written first and the child after it, if at all.
AncestorBeforeChild ==
    IsPrefix(FinalizeWrites, <<<<"updateAncestor", FinalizedLast.TableID>>,
                               <<"updateInterleaved", desc.ID>>>>)

\* C17: finalizeInterleave appends the back-reference only to the index
\* named by the last entry of the child's chain, writes the ancestor before
\* the child, makes the child PUBLIC and writes it only after the ancestor
\* write succeeded, and leaves the child's state alone and the child
\* unwritten when the ancestor write fails.
C17_AncestorThenChild ==
    FinalizeCalled =>
        /\ fn.err = NoError => BackrefOnLastOnly
        /\ AncestorBeforeChild
        /\ desc.State # fn.before.State =>
               /\ fn.before.State = "ADD" /\ desc.State = "PUBLIC"
               /\ FinalizeWrites # <<>>
        /\ (fn.err = NoError /\ fn.before.State = "ADD") =>
               desc.State = "PUBLIC" /\ Len(FinalizeWrites) = 2
        /\ FinalizeWrites = <<>> => fn.err # NoError /\ desc.State = fn.before.State

\* The child of a two-table chain was made PUBLIC: the back-reference is on
\* p, the last of the chain, next to that of p's other child.
C17_Witness ==
    /\ FinalizeCalled
    /\ fn.err = NoError
    /\ Len(FinalizedChain) = 2
    /\ fn.before.State = "ADD"
    /\ desc.State = "PUBLIC"
    /\ Len(store[52].PrimaryIndex.InterleavedBy) = 2

-----------------------------------------------------------------------------
(* ResolveFK: the index on the origin columns (SpecFK).                    *)

\* The call passed every check made before the origin index is looked for.
ReachesIndexStep ==
    FKCalled /\ ReachesActionChecks /\ ~SetNullCase /\ ~SetDefaultCase

FKOriginColumnIDs ==
    [i \in 1..Len(fn.d.FromCols) |-> FindColumnByName(fn.before, fn.d.FromCols[i]).ID]

\* Below cluster version NoOriginFKIndexes, and the origin table has no
\* index that starts with the origin columns.
OriginIndexMissing ==
    ~fn.st.NoOriginFKIndexes /\ ~HasFKOriginIndexInTxn(fn.before, FKOriginColumnIDs)

IsIndexMutation(m) == m.Kind = "index"

IndexMutationSeq(tbl) == SelectSeq(tbl.Mutations, IsIndexMutation)

\* An ascending index over the origin columns that is not unique.
IsOriginIndex(idx) ==
    /\ ~idx.Unique
    /\ idx.ColumnIDs = FKOriginColumnIDs
    /\ \A k \in 1..Len(idx.ColumnDirections) : idx.ColumnDirections[k] = "ASC"

NoIndexAdded ==
    /\ desc.Indexes = fn.before.Indexes
    /\ IndexMutationSeq(desc) = IndexMutationSeq(fn.before)

OneDirectIndexAdded ==
    /\ Len(desc.Indexes) = Len(fn.before.Indexes) + 1
    /\ SubSeq(desc.Indexes, 1, Len(fn.before.Indexes)) = fn.before.Indexes
    /\ IsOriginIndex(desc.Indexes[Len(desc.Indexes)])
    /\ IndexMutationSeq(desc) = IndexMutationSeq(fn.before)

OneIndexMutationAdded ==
    /\ desc.Indexes = fn.before.Indexes
    /\ Len(IndexMutationSeq(desc)) = Len(IndexMutationSeq(fn.before)) + 1
    /\ SubSeq(IndexMutationSeq(desc), 1, Len(IndexMutationSeq(fn.before)))
           = IndexMutationSeq(fn.before)
    /\ IndexMutationSeq(desc)[Len(IndexMutationSeq(desc))].Direction = "ADD"
    /\ IsOriginIndex(IndexMutationSeq(desc)[Len(IndexMutationSeq(desc))].Index)

\* The referenced table of the call, as the call found it, and whether it
\* has a unique index on exactly the referenced columns.
FKTargetBefore ==
    IF fn.d.Table = fn.before.Name THEN fn.before
    ELSE TargetBefore(CHOOSE id \in StoreIDsByName(store, fn.d.Table) : TRUE)

ReferencedIndexMissing ==
    ~HasFKReferencedIndex(FKTargetBefore,
         [i \in 1..Len(ReferencedNames(FKTargetBefore)) |->
             FindColumnByName(FKTargetBefore, ReferencedNames(FKTargetBefore)[i]).ID])

\* C21: for a foreign key that passed the checks before it, below the
\* version threshold and without an index on the origin columns ResolveFK
\* fails with ForeignKeyViolation for a NonEmptyTable and adds no index, and
\* adds exactly one ascending non-unique index over the origin columns for a
\* NewTable (a direct index) or an EmptyTable (an index mutation); at or
\* above the threshold, or with such an index, none is added; and the
\* foreign key is rejected whenever the referenced side has no unique index
\* on the referenced columns.
C21_OriginIndex ==
    ReachesIndexStep =>
        /\ (OriginIndexMissing /\ fn.ts = "NonEmptyTable") =>
               fn.err = "ForeignKeyViolation" /\ NoIndexAdded
        /\ (OriginIndexMissing /\ fn.ts = "NewTable") => OneDirectIndexAdded
        /\ (OriginIndexMissing /\ fn.ts = "EmptyTable") => OneIndexMutationAdded
        /\ ~OriginIndexMissing => NoIndexAdded
        /\ ReferencedIndexMissing => fn.err = "ForeignKeyViolation"
        /\ (~ReferencedIndexMissing /\ ~(OriginIndexMissing /\ fn.ts = "NonEmptyTable")) =>
               fn.err = NoError

\* A foreign key was added to an empty table below the threshold: its
\* origin index is queued as a mutation before the constraint.
C21_Witness ==
    /\ ReachesIndexStep
    /\ OriginIndexMissing
    /\ fn.ts = "EmptyTable"
    /\ fn.err = NoError
    /\ Len(desc.Mutations) = 2
    /\ desc.Mutations[1].Kind = "index"

\* C27: when ResolveFK returns an error the origin table (State, Indexes,
\* Mutations, OutboundFKs), the InboundFKs of the referenced tables and the
\* backrefs map are as they were before the call.
C27_ErrorLeavesNoTrace ==
    (FKCalled /\ fn.err # NoError) =>
        /\ desc.State = fn.before.State
        /\ desc.Indexes = fn.before.Indexes
        /\ desc.Mutations = fn.before.Mutations
        /\ desc.OutboundFKs = fn.before.OutboundFKs
        /\ desc.InboundFKs = fn.before.InboundFKs
        /\ affected = fn.beforeBackrefs

-----------------------------------------------------------------------------
(* ResolveFK: constraint names (SpecFK).                                   *)

\* The names of the foreign keys of a table, those being added included.
FKNameSeq(tbl) ==
    [i \in 1..Len(tbl.OutboundFKs) |-> tbl.OutboundFKs[i].Name]
        \o [i \in 1..Len(FKMutationSeq(tbl)) |-> FKMutationSeq(tbl)[i].Constraint.Name]

\* The names of the other constraints: primary key, unique indexes, checks.
OtherConstraintNames(tbl) ==
    {i.Name : i \in {x \in Range(AllNonDropIndexes(tbl)) : x.Unique}}
        \cup {c.Name : c \in Range(tbl.Checks)}

FKNamesDistinct(tbl) ==
    /\ Cardinality(Range(FKNameSeq(tbl))) = Len(FKNameSeq(tbl))
    /\ Range(FKNameSeq(tbl)) \cap OtherConstraintNames(tbl) = {}

\* fk_<firstcol>_ref_<target>, alone or with a numeric suffix.
DerivedFKNames ==
    LET base == "fk_" \o fn.d.FromCols[1] \o "_ref_" \o fn.d.Table
    IN  {base} \cup {base \o "_" \o ToString(k) : k \in 1..Len(FKNameSeq(desc))}

NewFKName == FKNameSeq(desc)[Len(FKNameSeq(desc))]

\* The call passed the checks made before the constraint name is looked at.
ReachesNameCheck ==
    /\ OriginColumnsError(fn.before, fn.d.FromCols, {}) = NoError
    /\ Resolvable(FKResolver, fn.before, fn.d.Table)
    /\ ColumnsMatch(ResolveTable(FKResolver, fn.before, fn.d.Table))

\* C24: after any sequence of successful ResolveFK calls on a table its
\* foreign key names are distinct from each other and from the table's other
\* constraint names; an unnamed foreign key is named fk_<firstcol>_ref_<target>,
\* with a suffix if that name is taken, and a foreign key named like an
\* existing constraint fails with DuplicateObject.
C24_UniqueFKNames ==
    FKCalled =>
        /\ FKNamesDistinct(desc)
        /\ (FKSucceeded /\ fn.d.Name = "") =>
               /\ NewFKName \in DerivedFKNames
               /\ NewFKName \notin ConstraintNames(fn.before)
        /\ (FKSucceeded /\ fn.d.Name # "") => NewFKName = fn.d.Name
        /\ (ReachesNameCheck /\ fn.d.Name # "" /\ fn.d.Name \in ConstraintNames(fn.before)) =>
               fn.err = "DuplicateObject"

\* Two unnamed foreign keys from a to p: the second is named with a suffix.
C24_Witness ==
    /\ FKSucceeded
    /\ fn.d.Name = ""
    /\ NewFKName = "fk_a_ref_p_1"
    /\ Len(FKNameSeq(desc)) = 2

-----------------------------------------------------------------------------
(* addInterleave: the ancestor chain (SpecInterleave).                     *)

RECURSIVE SumSharedPrefixLen(_)
SumSharedPrefixLen(ancestors) ==
    IF ancestors = <<>> THEN 0
    ELSE Head(ancestors).SharedPrefixLen + SumSharedPrefixLen(Tail(ancestors))

\* The chain of the parent's primary index, as the catalog has it.
ParentChain == store[52].PrimaryIndex.Interleave

\* C22: on success addInterleave sets the chain of the child index to the
\* parent's chain followed by one entry (parent table ID, parent primary
\* index ID, the parent's primary-key column count minus the shared prefix
\* lengths of the parent's chain), leaves the parent's chain as it was and
\* puts the child table in state ADD.
C22_AncestorChain ==
    (InterleaveApplied /\ fn.err = NoError) =>
        /\ desc.PrimaryIndex.Interleave =
               Append(ParentChain,
                      [TableID |-> 52, IndexID |-> store[52].PrimaryIndex.ID,
                       SharedPrefixLen |-> Len(store[52].PrimaryIndex.ColumnIDs)
                                               - SumSharedPrefixLen(ParentChain)])
        /\ ParentChain \in ParentAncestors
        /\ store[52].PrimaryIndex.InterleavedBy = <<>>
        /\ desc.State = "ADD"

\* A child of a parent that is itself interleaved and has a two-column key:
\* the new entry shares one column more than the parent's ancestor.
C22_Witness ==
    /\ InterleaveApplied
    /\ fn.err = NoError
    /\ Len(desc.PrimaryIndex.Interleave) = 2
    /\ desc.PrimaryIndex.Interleave[2].SharedPrefixLen = 1
    /\ Len(store[52].PrimaryIndex.ColumnIDs) = 2
    /\ fn.before.State = "PUBLIC"

-----------------------------------------------------------------------------
(* Chains built by addInterleave (SpecChain).                              *)

\* The chain of a table of the catalog, and the table of its last entry.
ChainOf(id) == store[id].PrimaryIndex.Interleave

ParentOf(id) == store[ChainOf(id)[Len(ChainOf(id))].TableID]

\* C29: in every chain built by addInterleave alone no shared prefix length
\* wrapped below zero in the unsigned subtraction, and the shared prefix
\* lengths of a table's chain add up to the number of primary-key columns of
\* its parent.
C29_SharedPrefixLenExact ==
    \A id \in DOMAIN store :
        ChainOf(id) # <<>> =>
            /\ \A i \in 1..Len(ChainOf(id)) : ChainOf(id)[i].SharedPrefixLen >= 0
            /\ SumSharedPrefixLen(ChainOf(id)) = Len(ParentOf(id).PrimaryIndex.ColumnIDs)

\* A table interleaved in a table that is interleaved in the root, where
\* the parent's key is longer than the root's.
C29_Witness ==
    \E id \in DOMAIN store :
        /\ Len(ChainOf(id)) = 2
        /\ ChainOf(id)[1].SharedPrefixLen = 1
        /\ ChainOf(id)[2].SharedPrefixLen = 2

-----------------------------------------------------------------------------
(* Nullability of the primary key (Spec).                                  *)

\* The columns of the returned descriptor that are part of its primary index.
PrimaryIndexColumns ==
    {k \in 1..Len(desc.Columns) :
        \E j \in 1..Len(desc.PrimaryIndex.ColumnNames) :
            desc.PrimaryIndex.ColumnNames[j] = desc.Columns[k].Name}

\* The three ways of declaring the primary key.
ColumnLevelPK ==
    \E i \in DefsOfKind(n.Defs, "col") : n.Defs[i].PrimaryKey.IsPrimaryKey

TableLevelPK ==
    \E i \in DefsOfKind(n.Defs, "unique") : n.Defs[i].PrimaryKey

HashShardedPK ==
    \/ \E i \in DefsOfKind(n.Defs, "col") : n.Defs[i].PrimaryKey.Sharded
    \/ \E i \in DefsOfKind(n.Defs, "unique") :
           n.Defs[i].PrimaryKey /\ n.Defs[i].Sharded # 0

\* C23: in every descriptor NewTableDesc returned, every column of the
\* primary index is non-nullable, whether the primary key was declared on a
\* column, by a table-level constraint or hash-sharded (or not at all).
C23_PrimaryKeyNotNull ==
    DescReturned =>
        /\ desc.PrimaryIndex.ColumnNames # <<>>
        /\ \A j \in 1..Len(desc.PrimaryIndex.ColumnNames) :
               HasColumn(desc, desc.PrimaryIndex.ColumnNames[j])
        /\ \A k \in PrimaryIndexColumns : ~desc.Columns[k].Nullable

\* A returned descriptor whose primary key is a hash-sharded table-level
\* constraint over a column declared without NOT NULL: the shard column and
\* the column are both in the primary index.
C23_Witness ==
    /\ DescReturned
    /\ TableLevelPK /\ HashShardedPK /\ ~ColumnLevelPK
    /\ \E i \in DefsOfKind(n.Defs, "col") :
           /\ n.Defs[i].Nullability # "NotNull"
           /\ n.Defs[i].Name \in {desc.Columns[k].Name : k \in PrimaryIndexColumns}
    /\ Cardinality(PrimaryIndexColumns) = 2

-----------------------------------------------------------------------------
(* A table with a foreign key to its interleave parent (Spec).             *)

\* The last version of table id written by the statement.
LastWritten(id) ==
    LET ks == {k \in 1..Len(writes) : writes[k].ID = id}
    IN  writes[CHOOSE k \in ks : \A j \in ks : j <= k].Desc

WrittenByStatement(id) == \E k \in 1..Len(writes) : writes[k].ID = id

\* The existing tables the new table both references by a foreign key and
\* is interleaved in.
FKParents ==
    {id \in DOMAIN InitialStore :
        /\ desc.PrimaryIndex.Interleave # <<>>
        /\ LastAncestor(desc.PrimaryIndex).TableID = id
        /\ \E f \in Range(desc.OutboundFKs) : f.ReferencedTableID = id}

HasInboundFKFrom(tbl, id) == \E g \in Range(tbl.InboundFKs) : g.OriginTableID = id

HasInterleavedBy(tbl, indexID, id) ==
    \E j \in Range(AllNonDropIndexes(tbl)) :
        j.ID = indexID /\ \E r \in Range(j.InterleavedBy) : r.Table = id

\* C28: when the new table has a foreign key to an existing table P and is
\* interleaved in P, then once the finalizeInterleave loop has succeeded, and
\* so after a successful startExec, the last written version of P, which is
\* the transaction's version of P, has both the inbound foreign key and the
\* InterleavedBy back-reference of the new table.
C28_ParentKeepsInboundFK ==
    InterleavesFinalized =>
        \A id \in FKParents :
            /\ WrittenByStatement(id)
            /\ store[id] = LastWritten(id)
            /\ HasInboundFKFrom(LastWritten(id), desc.ID)
            /\ HasInterleavedBy(LastWritten(id),
                                LastAncestor(desc.PrimaryIndex).IndexID, desc.ID)

\* startExec succeeded for a table with a foreign key to p that is
\* interleaved in p; p was written from the affected map and then by
\* finalizeInterleave.
C28_Witness ==
    /\ pc = "done" /\ err = NoError /\ DescInitialized
    /\ 52 \in FKParents
    /\ \E j, k \in 1..Len(writes) :
           /\ j < k
           /\ writes[j].ID = 52 /\ writes[j].Op = "updateAffected"
           /\ writes[k].ID = 52 /\ writes[k].Op = "updateAncestor"
           /\ ~HasInterleavedBy(writes[j].Desc, 1, desc.ID)

-----------------------------------------------------------------------------
(* The sequence-dependency pass (Spec).                                    *)

\* The deferred default expressions are one per definition.
DefaultExprsAligned == Len(columnDefaultExprs) = Len(n.Defs)

\* C26: when the sequence-dependency pass runs, the deferred default
\* expressions are as many as the definitions, and the column passed with
\* the default expression of a column definition is the column built from
\* that definition.
C26_DefaultPairedWithOwnColumn ==
    Running("sequences") =>
        /\ DefaultExprsAligned
        /\ \A p \in Range(SequencePairsFrom(n.Defs, columnDefaultExprs, 1, 0)) :
               desc.Columns[p.Column].Name = n.Defs[p.Def].Name

\* The pass runs on a table whose hash-sharded primary-key column put the
\* shard column first, and whose second column has a default expression.
ShardColumnFirst ==
    /\ Running("sequences")
    /\ desc.Columns[1].Hidden
    /\ \E p \in Range(SequencePairsFrom(n.Defs, columnDefaultExprs, 1, 0)) :
           n.Defs[p.Def].Name = "b" /\ desc.Columns[p.Column].Name = "a"

\* The length of the deferred list, on its own.
DefaultExprsAlignedInPass == Running("sequences") => DefaultExprsAligned

-----------------------------------------------------------------------------
(* CREATE TABLE AS in implicit and explicit transactions (SpecCTAS).       *)

\* startExec has returned without error.
CreateAsReturned == pc = "done" \/ (pc = "returned" /\ err = NoError)

\* The versions of the new table startExec wrote.
NewTableWrites == {k \in 1..Len(writes) : writes[k].ID = desc.ID}

FillCalls == {"row.MakeInserter", "tw.init", "sourcePlan.Next", "tw.row", "tw.finalize"}

-----------------------------------------------------------------------------
(* The table writer of the synchronous fill (SpecCTAS).                    *)

\* The positions of a call in the log of calls.
CallsOf(what) == {i \in 1..Len(calls) : calls[i] = what}

\* The rows written before position i of the log.
RowsWrittenBefore(i) == Cardinality({k \in CallsOf("tw.row") : k < i})

\* tw.finalize is called at most once, right after the source plan reported
\* the end of its rows without error, when every row of the source had been
\* written, and nothing but the deferred calls follows it.
FinalizedAtEndOnly ==
    /\ Cardinality(CallsOf("tw.finalize")) <= 1
    /\ \A i \in CallsOf("tw.finalize") :
           /\ i > 1 /\ calls[i - 1] = "sourcePlan.Next"
           /\ fn.source = 0
           /\ RowsWrittenBefore(i) = fn.rows
           /\ \A k \in (i + 1)..Len(calls) : calls[k] \in DeferredCalls

\* A fill that returned without error finalized the writer; one that
\* returned an error did not: the error came before any call of
\* tw.finalize, or it is the error of tw.finalize itself.
FinalizedIffSucceeded ==
    /\ fn.finalized => CallsOf("tw.finalize") # {}
    /\ pc = "returned" => (fn.finalized <=> err = NoError)
    /\ err = "QueryCanceled" => CallsOf("tw.finalize") = {}

\* The writer is taken from the pool at most once, and a fill that has
\* returned closed it and put it back, in that order, if it had taken it.
ClosedOnEveryExit ==
    /\ Cardinality(CallsOf("tableInserterPool.Get")) <= 1
    /\ pc = "returned" =>
           /\ Cardinality(CallsOf("tw.close")) = Cardinality(CallsOf("tableInserterPool.Get"))
           /\ Cardinality(CallsOf("tableInserterPool.Put")) = Cardinality(CallsOf("tableInserterPool.Get"))
           /\ \A g \in CallsOf("tableInserterPool.Get") :
                  \E c \in CallsOf("tw.close") :
                      g < c /\ calls[c + 1] = "tableInserterPool.Put"
           /\ fn.closed <=> CallsOf("tableInserterPool.Get") # {}

\* C30: in the synchronous fill the table writer is finalized exactly once,
\* only after the source plan is exhausted without error and every row it
\* produced was written; a fill that returns an error or is cancelled has
\* not finalized it; and once the writer is taken from the pool it is closed
\* and put back on every exit.
C30_FinalizeOnceCloseAlways ==
    InFill => FinalizedAtEndOnly /\ FinalizedIffSucceeded /\ ClosedOnEveryExit

\* A fill that wrote the MaxRows rows of its source, finalized the writer
\* and returned it to the pool.
C30_Witness ==
    /\ pc = "returned"
    /\ err = NoError
    /\ fn.finalized
    /\ fn.rows = MaxRows
    /\ Cardinality(CallsOf("tw.row")) = MaxRows
    /\ CallsOf("tableInserterPool.Put") # {}

====
